---- MODULE Spec2Model ----
(***************************************************************************)
(* Model of the content-addressed blackboard of crewai-rust                *)
(* (src/lib/crewai-rust/src/blackboard): BlackboardEntry, the hashed       *)
(* store HashedBlackboard with its pending/live two-stage commit, epochs,  *)
(* memoized snapshots, tombstones, compaction and A2A import/export, and   *)
(* the original flavor OriginalBlackboard.                                 *)
(*                                                                         *)
(* Conventions.  Option<T> is a sequence: <<>> is None, <<x>> is Some(x).  *)
(* A DashMap is a function whose DOMAIN is its key set.  Digests are       *)
(* small positive integers standing for the 32-byte arrays; time is in     *)
(* whole seconds.                                                          *)
(***************************************************************************)
EXTENDS Integers, Sequences, FiniteSets, TLC

VARIABLES
    bb,     \* the HashedBlackboard
    now,    \* the wall clock, Utc::now()
    last,   \* the most recent call on bb: its name, result and error
    snaps,  \* the snapshots returned since the last mutating call (latest two)
    bbB,    \* a second, independent HashedBlackboard
    pc,     \* per thread: where it stands in its call on bb
    loc,    \* per thread: the locals and the result of its call
    order_lock,   \* the thread holding canonical_order's write lock, if any
    seen,   \* the largest epoch returned so far: .epoch by a completed epoch()
            \* call, .snap inside a snapshot returned by snapshot(); .posted
            \* the hashes whose post returned Ok and that neither compact
            \* nor clear removed since
    ob,     \* the OriginalBlackboard: its `entries` vector
    epoch_snaps,  \* per epoch value, the first snapshot returned carrying it
    eff,    \* a CacheEfficiency tracker: .stats its fields, .calls the
            \* record_call calls made on it, .build the build profile
    todo,   \* per thread: the lock steps its call has still to take
    guards, \* per thread: the lock guards it holds, oldest first
    ncalls  \* per thread: the calls it has begun at the level of locks

vars == <<bb, now, last, snaps, bbB, pc, loc, order_lock, seen, ob, epoch_snaps, eff, todo, guards, ncalls>>

(* ------------------------------ bounds -------------------------------- *)

\* The wall clock runs from 0 to MaxTime seconds.
MaxTime == 2

\* advance_epoch is called at most MaxEpoch times in a run.
MaxEpoch == 2

\* The number of bits a u64 is modelled with.
WordBits == 3

\* record_call is called at most this many times on one tracker.
MaxCalls == 3

\* The conversation history has at most this many messages.
MaxHistory == 2

(* ----------------------------- helpers -------------------------------- *)

None == <<>>

Some(x) == <<x>>

Range(s) == {s[i] : i \in 1..Len(s)}

\* All enumerations (sequences without repetition) of a finite set.
RECURSIVE Perms(_)
Perms(S) ==
    IF S = {} THEN {<<>>}
    ELSE UNION {{<<x>> \o p : p \in Perms(S \ {x})} : x \in S}

\* A map restricted to the keys outside D.
RemoveKeys(m, D) == [k \in (DOMAIN m) \ D |-> m[k]]

\* DashMap::insert.
MapInsert(m, k, v) == [x \in (DOMAIN m) \cup {k} |-> IF x = k THEN v ELSE m[x]]

(* ------------------------------ entry.rs ------------------------------ *)

EntryTypes == {"Fact", "Hypothesis", "Decision", "Veto", "Partial", "Query",
               "Observation", "Reasoning"}

EntryTiers == {"Stm", "Session", "Ltm"}

\* Position of an author fingerprint / a content string in the byte stream
\* fed to the hasher; distinct strings feed distinct streams.
AuthorCode(author) == CASE author = "A" -> 0 [] author = "B" -> 1

ContentCode(content) == CASE content = "x" -> 0 [] content = "go" -> 1

\* compute_hash feeds author, content and, only when present, the parent
\* digest to one hasher.  The digest is modelled as a collision-free code of
\* that stream: an absent parent feeds nothing (code 0), a present parent
\* feeds its digest, which is positive.
compute_hash(author, content, parent) ==
    1 + AuthorCode(author) + 2 * ContentCode(content)
      + 4 * (IF parent = None THEN 0 ELSE parent[1])

\* BlackboardEntry::new: hash computed, every other field defaulted.
\* created_at is the clock reading t of the constructor call.
EntryNew(author, entry_type, content, parent_hash, t) ==
    [content_hash |-> compute_hash(author, content, parent_hash),
     author       |-> author,
     entry_type   |-> entry_type,
     tier         |-> "Session",
     content      |-> content,
     parent_hash  |-> parent_hash,
     supersedes   |-> <<>>,
     confidence   |-> 100,
     created_at   |-> t,
     ttl          |-> None,
     tombstoned   |-> FALSE]

with_tier(e, tier) == [e EXCEPT !.tier = tier]

\* confidence is kept in hundredths; clamp(0.0, 1.0).
with_confidence(e, c) ==
    [e EXCEPT !.confidence = IF c < 0 THEN 0 ELSE IF c > 100 THEN 100 ELSE c]

with_supersedes(e, supersedes) == [e EXCEPT !.supersedes = supersedes]

with_ttl(e, ttl) == [e EXCEPT !.ttl = Some(ttl)]

\* is_expired: tombstoned, or older than the explicit ttl, else than the
\* tier default (the Stm default for Stm, Duration::max_value() otherwise,
\* which no age exceeds).
is_expired(e, default_stm_ttl, t) ==
    IF e.tombstoned THEN TRUE
    ELSE IF e.ttl # None THEN t - e.created_at > e.ttl[1]
    ELSE IF e.tier = "Stm" THEN t - e.created_at > default_stm_ttl
    ELSE FALSE

\* The first eight hex digits of a digest are its first four bytes; the
\* digests of the model are below 2^32, so these bytes are the digest.
hex8(h) == h

\* The UTF-8 bytes of the strings the hash runs use as author and content.
Utf8(str) ==
    CASE str = "a"  -> <<97>>
      [] str = "ab" -> <<97, 98>>
      [] str = "bc" -> <<98, 99>>
      [] str = "c"  -> <<99>>
      [] str = "d"  -> <<100>>

\* Hasher::write_usize: eight bytes, little-endian (n below 256 here).
write_usize(n) == <<n % 256, 0, 0, 0, 0, 0, 0, 0>>

\* <str as Hash>::hash: the bytes, then the byte 0xff.
hash_str(str) == Utf8(str) \o <<255>>

\* <[u8] as Hash>::hash on a byte sequence that leaves out the bytes after
\* the eighth.
hash_bytes_prefix(bytes) ==
    write_usize(Len(bytes)) \o SubSeq(bytes, 1, IF Len(bytes) < 8 THEN Len(bytes) ELSE 8)

\* <[u8] as Hash>::hash, which arrays and their slices use: the length,
\* then the bytes.
hash_bytes(bytes) == write_usize(Len(bytes)) \o bytes

\* Hasher::finish on a hasher fed `stream`.  The 64-bit digest is modelled
\* collision-free: it stands for the stream that was fed.
finish(stream) == [fed |-> stream]

\* compute_hash at the level of the bytes fed to the hasher: `out` as its
\* four 8-byte words h, h2, h3, h4.
compute_hash_out(author, content, parent) ==
    LET s1 == hash_str(author) \o hash_str(content)
              \o (IF parent # None THEN hash_bytes(parent[1]) ELSE <<>>)
        s2 == s1 \o write_usize(Len(Utf8(content)))
        s3 == s2 \o write_usize(Len(Utf8(author)))
        s4 == s3 \o (IF parent # None
                     THEN hash_bytes(SubSeq(parent[1], 1, 8)) ELSE <<>>)
    IN  <<finish(s1), finish(s2), finish(s3), finish(s4)>>

(* ---------------------------- snapshot.rs ----------------------------- *)

\* One hasher is fed every content hash in order; h1 is its state then,
\* h2 its state after the entry count is fed as well.  Modelled as the
\* collision-free positional code of the fed stream.
RECURSIVE FeedHashes(_, _)
FeedHashes(acc, hs) ==
    IF hs = <<>> THEN acc ELSE FeedHashes(acc * 16 + Head(hs), Tail(hs))

from_entries(entries) ==
    LET hs == [i \in 1..Len(entries) |-> entries[i].content_hash]
        h1 == FeedHashes(1, hs)
    IN  [h1 |-> h1, h2 |-> h1 * 16 + Len(entries)]

\* type_order of render_for_prompt.
type_order == <<
    <<"Decision", "Decisions">>, <<"Fact", "Facts">>,
    <<"Hypothesis", "Hypotheses">>, <<"Observation", "Observations">>,
    <<"Partial", "In Progress">>, <<"Query", "Open Questions">>,
    <<"Veto", "Vetoed">>, <<"Reasoning", "Reasoning Traces">> >>

\* The labels in the iteration order of the BTreeMap<&str, _> `sections`:
\* ascending byte order of the label.
btree_order == <<"Decisions", "Facts", "Hypotheses", "In Progress",
                 "Observations", "Open Questions", "Reasoning Traces",
                 "Vetoed">>

TypeOfLabel(label) ==
    (CHOOSE i \in 1..Len(type_order) : type_order[i][2] = label)

Line(tag, n, who, conf, text) ==
    [tag |-> tag, n |-> n, who |-> who, conf |-> conf, text |-> text]

\* The "- [hash8] (author, conf=..): content" lines of one entry type, in
\* the order of `entries`.
Matching(entries, et) ==
    LET sel == SelectSeq(entries, LAMBDA e : e.entry_type = et /\ ~e.tombstoned)
    IN  [i \in 1..Len(sel) |->
            Line("item", hex8(sel[i].content_hash), sel[i].author,
                 sel[i].confidence, sel[i].content)]

RECURSIVE RenderSections(_, _)
RenderSections(entries, labels) ==
    IF labels = <<>> THEN <<>>
    ELSE LET label == Head(labels)
             items == Matching(entries, type_order[TypeOfLabel(label)][1])
         IN  (IF items = <<>> THEN <<>>
              ELSE <<Line("section", 0, "", 0, label)>> \o items)
             \o RenderSections(entries, Tail(labels))

\* render_for_prompt: the text as its sequence of lines; "" is <<>>.
render_for_prompt(entries) ==
    IF entries = <<>> THEN <<>>
    ELSE <<Line("header", Len(entries), "", 0,
                ToString(hex8(from_entries(entries).h1)))>>
         \o RenderSections(entries, btree_order)

\* BlackboardSnapshot::new.
SnapshotNew(epoch, entries) ==
    [epoch      |-> epoch,
     entries    |-> entries,
     thumbprint |-> from_entries(entries),
     rendered   |-> render_for_prompt(entries)]

(* ----------------------------- hashed.rs ------------------------------ *)

\* Vec::push on the bucket of key k, created empty by or_default().
BucketPush(m, k, h) ==
    IF k \in DOMAIN m THEN [m EXCEPT ![k] = Append(@, h)]
    ELSE MapInsert(m, k, <<h>>)

\* Vec::retain(|x| x != h) on the bucket of key k, if there is one.
BucketRetain(m, k, h) ==
    IF k \in DOMAIN m THEN [m EXCEPT ![k] = SelectSeq(@, LAMBDA x : x # h)]
    ELSE m

\* HashedBlackboard::new.
StoreNew(config) ==
    [config          |-> config,
     live            |-> <<>>,
     pending         |-> <<>>,
     by_type         |-> <<>>,
     by_author       |-> <<>>,
     by_parent       |-> <<>>,
     canonical_order |-> <<>>,
     epoch           |-> 0,
     cached_snapshot |-> None]

\* index_entry that leaves the by_parent index alone.
index_entry_no_parent(s, entry) ==
    [s EXCEPT
       !.by_type   = BucketPush(@, entry.entry_type, entry.content_hash),
       !.by_author = BucketPush(@, entry.author, entry.content_hash)]

index_entry(s, entry) ==
    [s EXCEPT
       !.by_type   = BucketPush(@, entry.entry_type, entry.content_hash),
       !.by_author = BucketPush(@, entry.author, entry.content_hash),
       !.by_parent = IF entry.parent_hash # None
                     THEN BucketPush(@, entry.parent_hash[1], entry.content_hash)
                     ELSE @]

\* deindex_entry that cleans the by_type bucket only.
deindex_entry_type_only(s, entry) ==
    [s EXCEPT
       !.by_type   = BucketRetain(@, entry.entry_type, entry.content_hash)]

deindex_entry(s, entry) ==
    [s EXCEPT
       !.by_type   = BucketRetain(@, entry.entry_type, entry.content_hash),
       !.by_author = BucketRetain(@, entry.author, entry.content_hash),
       !.by_parent = IF entry.parent_hash # None
                     THEN BucketRetain(@, entry.parent_hash[1], entry.content_hash)
                     ELSE @]

\* `live.remove(hash)` followed by deindex_entry, for every hash of hs in turn.
RECURSIVE RemoveLive(_, _)
RemoveLive(s, hs) ==
    IF hs = <<>> THEN s
    ELSE LET h == Head(hs)
         IN  IF h \in DOMAIN s.live
             THEN RemoveLive(deindex_entry([s EXCEPT !.live = RemoveKeys(@, {h})],
                                           s.live[h]),
                             Tail(hs))
             ELSE RemoveLive(s, Tail(hs))

\* How many hashes of hs RemoveLive finds in live (each is removed once).
RemovedCount(s, hs) == Cardinality(Range(hs) \cap DOMAIN s.live)

\* Some enumeration of a set whose iteration order does not matter.
RECURSIVE SetToSeq(_)
SetToSeq(S) ==
    IF S = {} THEN <<>>
    ELSE LET x == CHOOSE x \in S : TRUE IN <<x>> \o SetToSeq(S \ {x})

\* build_snapshot with the expiry test left out of the filter.
build_snapshot_no_expiry(s, t) ==
    LET kept == SelectSeq(s.canonical_order,
                          LAMBDA h : h \in DOMAIN s.live /\ ~s.live[h].tombstoned)
    IN  SnapshotNew(s.epoch, [i \in 1..Len(kept) |-> s.live[kept[i]]])

\* build_snapshot at clock reading t.
build_snapshot(s, t) ==
    LET ttl  == s.config.stm_ttl_seconds
        kept == SelectSeq(s.canonical_order,
                          LAMBDA h : /\ h \in DOMAIN s.live
                                     /\ ~s.live[h].tombstoned
                                     /\ ~is_expired(s.live[h], ttl, t))
    IN  SnapshotNew(s.epoch, [i \in 1..Len(kept) |-> s.live[kept[i]]])

\* The supersession loop of post: tombstone every superseded live entry.
Supersede(live, supersedes) ==
    [h \in DOMAIN live |->
        IF h \in Range(supersedes) THEN [live[h] EXCEPT !.tombstoned = TRUE]
        ELSE live[h]]

\* post with the duplicate check left out.
post_no_dedup(s, entry) ==
    LET hash == entry.content_hash
        s1 == [s EXCEPT !.live = Supersede(@, entry.supersedes)]
        s2 == index_entry(s1, entry)
    IN  [bb  |-> [s2 EXCEPT !.pending = MapInsert(@, hash, entry),
                            !.cached_snapshot = None],
         ret |-> hash]

\* post: [bb |-> the store afterwards, ret |-> Ok(hash)].
post(s, entry) ==
    LET hash == entry.content_hash
    IN  IF hash \in DOMAIN s.live \/ hash \in DOMAIN s.pending
        THEN [bb |-> s, ret |-> hash]
        ELSE LET s1 == [s EXCEPT !.live = Supersede(@, entry.supersedes)]
                 s2 == index_entry(s1, entry)
             IN  [bb  |-> [s2 EXCEPT !.pending = MapInsert(@, hash, entry),
                                     !.cached_snapshot = None],
                  ret |-> hash]

\* get: Option<entry>.
get(s, hash) ==
    IF hash \in DOMAIN s.live THEN Some(s.live[hash])
    ELSE IF hash \in DOMAIN s.pending THEN Some(s.pending[hash])
    ELSE None

len(s) == Cardinality(DOMAIN s.live) + Cardinality(DOMAIN s.pending)

\* `*self.cached_snapshot.write() = Some(snap.clone())`.
store_snapshot(s, snap) == [s EXCEPT !.cached_snapshot = Some(snap)]

\* snapshot that builds afresh on every call.
snapshot_no_memo(s, t) ==
    LET snap == build_snapshot(s, t)
    IN  [bb |-> store_snapshot(s, snap), ret |-> snap]

\* snapshot at clock reading t: the memoized value, else a fresh build that
\* is memoized.
snapshot(s, t) ==
    IF s.cached_snapshot # None
    THEN [bb |-> s, ret |-> s.cached_snapshot[1]]
    ELSE LET snap == build_snapshot(s, t)
         IN  [bb |-> store_snapshot(s, snap), ret |-> snap]

epoch(s) == s.epoch

\* The promotion loop of advance_epoch; iter is the order in which
\* `self.pending.iter()` yields the pending keys (a DashMap iterates in shard
\* and bucket order, and each map hashes with its own random keys).
adv_promote(s, iter) ==
    [s EXCEPT
       !.live = [h \in (DOMAIN s.live) \cup Range(iter) |->
                    IF h \in Range(iter) THEN s.pending[h] ELSE s.live[h]],
       !.canonical_order = @ \o iter]

\* advance_epoch that keeps the promoted entries staged as well.
adv_clear_kept(s) == s

\* `self.pending.clear()`.
adv_clear(s) == [s EXCEPT !.pending = <<>>]

\* advance_epoch's invalidation left out: the slot stays as it is.
invalidate_skipped(s) == s

\* `*self.cached_snapshot.write() = None`.
invalidate(s) == [s EXCEPT !.cached_snapshot = None]

\* adv_bump that leaves the counter alone while nothing has been promoted.
adv_bump_if_promoted(s) ==
    IF s.canonical_order = <<>> THEN s ELSE [s EXCEPT !.epoch = @ + 1]

\* `self.epoch.fetch_add(1, Relaxed)`.
adv_bump(s) == [s EXCEPT !.epoch = @ + 1]

\* advance_epoch run without interruption: [bb, ret |-> the new epoch].
advance_epoch(s, iter) ==
    [bb  |-> adv_bump(invalidate(adv_clear(adv_promote(s, iter)))),
     ret |-> s.epoch + 1]

\* tombstone that leaves the memoized snapshot in place.
tombstone_keep_cache(s, hash) ==
    IF hash \in DOMAIN s.live
    THEN [bb |-> [s EXCEPT !.live[hash].tombstoned = TRUE], err |-> ""]
    ELSE IF hash \in DOMAIN s.pending
    THEN [bb |-> [s EXCEPT !.pending[hash].tombstoned = TRUE], err |-> ""]
    ELSE [bb |-> s, err |-> "NotFound"]

\* tombstone that reports success for a hash the store does not hold.
tombstone_absent_ok(s, hash) ==
    IF hash \in DOMAIN s.live
    THEN [bb  |-> [s EXCEPT !.live[hash].tombstoned = TRUE,
                            !.cached_snapshot = None],
          err |-> ""]
    ELSE IF hash \in DOMAIN s.pending
    THEN [bb |-> [s EXCEPT !.pending[hash].tombstoned = TRUE], err |-> ""]
    ELSE [bb |-> s, err |-> ""]

\* tombstone: [bb, err], err "" for Ok(()).
tombstone(s, hash) ==
    IF hash \in DOMAIN s.live
    THEN [bb  |-> [s EXCEPT !.live[hash].tombstoned = TRUE,
                            !.cached_snapshot = None],
          err |-> ""]
    ELSE IF hash \in DOMAIN s.pending
    THEN [bb |-> [s EXCEPT !.pending[hash].tombstoned = TRUE], err |-> ""]
    ELSE [bb |-> s, err |-> "NotFound"]

\* `excess` computed one too small.
excess_off_by_one(n, max_entries) == n - max_entries - 1

\* `excess` of compact: how many entries live holds above max_entries.
excess(n, max_entries) == n - max_entries

\* The last n hashes of the order instead of the first n.
take_last(order, n) ==
    SubSeq(order, IF n < Len(order) THEN Len(order) - n + 1 ELSE 1, Len(order))

\* `order.iter().take(n)`: the first n hashes, all of them if there are fewer.
take(order, n) == SubSeq(order, 1, IF n < Len(order) THEN n ELSE Len(order))

\* compact at clock reading t: [bb, stats].
compact(s, t) ==
    LET ttl    == s.config.stm_ttl_seconds
        before == Cardinality(DOMAIN s.live)
        tomb   == {h \in DOMAIN s.live : s.live[h].tombstoned}
        expd   == {h \in DOMAIN s.live :
                      ~s.live[h].tombstoned /\ is_expired(s.live[h], ttl, t)}
        to_remove == IF s.config.prune_expired THEN tomb \cup expd ELSE {}
        superseded_to_remove ==
            {h \in DOMAIN s.live :
                /\ \E o \in DOMAIN s.live :
                      /\ s.live[h].content_hash \in Range(s.live[o].supersedes)
                      /\ ~s.live[o].tombstoned
                /\ s.live[h].tombstoned}
        s1 == RemoveLive(s, SetToSeq(to_remove))
        superseded_removed == RemovedCount(s1, SetToSeq(superseded_to_remove))
        s2 == RemoveLive(s1, SetToSeq(superseded_to_remove))
        s3 == [s2 EXCEPT !.canonical_order =
                            SelectSeq(@, LAMBDA h : h \in DOMAIN s2.live)]
        n3 == Cardinality(DOMAIN s3.live)
        over == n3 > s.config.max_entries
        n_excess == excess(n3, s.config.max_entries)
        to_evict == take(s3.canonical_order, n_excess)
        evicted == IF over THEN RemovedCount(s3, to_evict) ELSE 0
        s4 == IF over
              THEN [RemoveLive(s3, to_evict) EXCEPT !.canonical_order =
                       SubSeq(s3.canonical_order, Len(to_evict) + 1,
                              Len(s3.canonical_order))]
              ELSE s3
    IN  [bb    |-> [s4 EXCEPT !.cached_snapshot = None],
         stats |-> [entries_before     |-> before,
                    entries_after      |-> Cardinality(DOMAIN s4.live),
                    tombstoned         |-> Cardinality(tomb),
                    pruned             |-> Cardinality(expd) + evicted,
                    superseded_removed |-> superseded_removed]]

clear(s) ==
    [s EXCEPT !.live = <<>>, !.pending = <<>>, !.by_type = <<>>,
              !.by_author = <<>>, !.by_parent = <<>>,
              !.canonical_order = <<>>, !.cached_snapshot = None]

\* export_entries: the live entries in the order `self.live.iter()` yields
\* them, iter being that order of live's keys.
export_entries(s, iter) == [i \in 1..Len(iter) |-> s.live[iter[i]]]

\* The import loop with the membership test left out.
RECURSIVE ImportLoop_no_dedup(_, _, _)
ImportLoop_no_dedup(s, entries, acc) ==
    IF entries = <<>> THEN [bb |-> s, ret |-> acc]
    ELSE LET entry == Head(entries)
             hash  == entry.content_hash
         IN  ImportLoop_no_dedup([index_entry(s, entry) EXCEPT
                                     !.pending = MapInsert(@, hash, entry)],
                                 Tail(entries), Append(acc, hash))

\* The loop of import_entries over the remaining payload; acc is `imported`.
RECURSIVE ImportLoop(_, _, _)
ImportLoop(s, entries, acc) ==
    IF entries = <<>> THEN [bb |-> s, ret |-> acc]
    ELSE LET entry == Head(entries)
             hash  == entry.content_hash
         IN  IF hash \notin DOMAIN s.live /\ hash \notin DOMAIN s.pending
             THEN ImportLoop([index_entry(s, entry) EXCEPT
                                 !.pending = MapInsert(@, hash, entry)],
                             Tail(entries), Append(acc, hash))
             ELSE ImportLoop(s, Tail(entries), acc)

\* import_entries: [bb, ret |-> Ok(imported)]; it has no error return.
import_entries(s, entries) ==
    LET r == ImportLoop(s, entries, <<>>)
    IN  [bb  |-> IF r.ret # <<>> THEN [r.bb EXCEPT !.cached_snapshot = None]
                 ELSE r.bb,
         ret |-> r.ret,
         err |-> ""]

(* ------------------------ store.rs and query -------------------------- *)

\* BlackboardQuery::default(): no predicate, limit 0.
QueryDefault ==
    [text |-> None, entry_types |-> None, authors |-> None,
     parent_hash |-> None, include_tombstoned |-> FALSE, limit |-> 0,
     min_confidence |-> 0, min_epoch |-> None]

\* BlackboardQuery::new, by_type, by_author, children_of and the builders.
QueryNew(text) == [QueryDefault EXCEPT !.text = Some(text), !.limit = 10]

by_type(entry_type) ==
    [QueryDefault EXCEPT !.entry_types = Some(<<entry_type>>), !.limit = 50]

by_author(author) ==
    [QueryDefault EXCEPT !.authors = Some(<<author>>), !.limit = 50]

children_of(parent) ==
    [QueryDefault EXCEPT !.parent_hash = Some(parent), !.limit = 50]

with_limit(q, limit) == [q EXCEPT !.limit = limit]

with_min_confidence(q, c) == [q EXCEPT !.min_confidence = c]

\* The characters of the strings the runs use as content and as query text.
Chars(str) ==
    CASE str = ""   -> <<>>
      [] str = "x"  -> <<"x">>
      [] str = "X"  -> <<"X">>
      [] str = "go" -> <<"g", "o">>
      [] str = "GO" -> <<"G", "O">>
      [] str = "o"  -> <<"o">>
      [] str = "ox" -> <<"o", "x">>

\* char::to_lowercase on the characters above.
LowerChar(c) ==
    CASE c = "X" -> "x" [] c = "G" -> "g" [] c = "O" -> "o" [] OTHER -> c

\* str::to_lowercase, as a character sequence.
to_lowercase(str) == [i \in 1..Len(Chars(str)) |-> LowerChar(Chars(str)[i])]

\* str::contains on character sequences.
contains(hay, needle) ==
    \E i \in 0..(Len(hay) - Len(needle)) :
        SubSeq(hay, i + 1, i + Len(needle)) = needle

\* The concatenation of the buckets of the keys, skipping keys without one.
RECURSIVE Buckets(_, _)
Buckets(index, keys) ==
    IF keys = <<>> THEN <<>>
    ELSE (IF Head(keys) \in DOMAIN index THEN index[Head(keys)] ELSE <<>>)
         \o Buckets(index, Tail(keys))

\* candidate_hashes of query: Some(hashes) from the first index whose
\* predicate is set, None for a full scan.
candidate_hashes(s, q) ==
    IF q.entry_types # None THEN Some(Buckets(s.by_type, q.entry_types[1]))
    ELSE IF q.authors # None THEN Some(Buckets(s.by_author, q.authors[1]))
    ELSE IF q.parent_hash # None
    THEN (IF q.parent_hash[1] \in DOMAIN s.by_parent
          THEN Some(s.by_parent[q.parent_hash[1]]) ELSE None)
    ELSE None

\* The filter closure of query at clock reading t.
query_filter(s, q, t, e) ==
    /\ ~(~q.include_tombstoned /\ e.tombstoned)
    /\ ~(is_expired(e, s.config.stm_ttl_seconds, t) /\ ~q.include_tombstoned)
    /\ ~(e.confidence < q.min_confidence)
    /\ q.text # None =>
          contains(to_lowercase(e.content), to_lowercase(q.text[1]))

\* query at clock reading t; live_iter and pending_iter are the orders in
\* which the two maps iterate on a full scan.
query(s, q, t, live_iter, pending_iter) ==
    LET cand    == candidate_hashes(s, q)
        held    == IF cand # None
                   THEN SelectSeq(cand[1], LAMBDA h : get(s, h) # None)
                   ELSE <<>>
        entries == IF cand # None
                   THEN [i \in 1..Len(held) |-> get(s, held[i])[1]]
                   ELSE [i \in 1..Len(live_iter) |-> s.live[live_iter[i]]]
                        \o [i \in 1..Len(pending_iter) |->
                               s.pending[pending_iter[i]]]
        results == SelectSeq(entries, LAMBDA e : query_filter(s, q, t, e))
    IN  SubSeq(results, 1, IF q.limit < Len(results) THEN q.limit ELSE Len(results))

(* ---------------------------- original.rs ----------------------------- *)

\* OriginalBlackboard::new.
OriginalNew(config) == [config |-> config, entries |-> <<>>]

\* The hashes of the stored entries.
StoredHashes(o) == {o.entries[i].content_hash : i \in 1..Len(o.entries)}

\* OriginalBlackboard::post: [ob, ret |-> Ok(hash)].
orig_post(o, entry) ==
    [ob  |-> IF entry.content_hash \notin StoredHashes(o)
             THEN [o EXCEPT !.entries = Append(@, entry)]
             ELSE o,
     ret |-> entry.content_hash]

\* The loop of OriginalBlackboard::import_entries; acc is `imported`.
RECURSIVE OrigImportLoop(_, _, _)
OrigImportLoop(o, entries, acc) ==
    IF entries = <<>> THEN [ob |-> o, ret |-> acc]
    ELSE LET r == orig_post(o, Head(entries))
         IN  OrigImportLoop(r.ob, Tail(entries), Append(acc, r.ret))

\* OriginalBlackboard::import_entries: [ob, ret |-> Ok(imported)].
orig_import_entries(o, entries) == OrigImportLoop(o, entries, <<>>)

\* OriginalBlackboard::tombstone: [ob, err].
orig_tombstone(o, hash) ==
    IF hash \in StoredHashes(o)
    THEN [ob  |-> [o EXCEPT !.entries =
                      [i \in 1..Len(@) |->
                          IF @[i].content_hash = hash
                          THEN [@[i] EXCEPT !.tombstoned = TRUE] ELSE @[i]]],
          err |-> ""]
    ELSE [ob |-> o, err |-> "NotFound"]

\* OriginalBlackboard::compact at clock reading t: [ob, stats].
orig_compact(o, t) ==
    LET ttl  == o.config.stm_ttl_seconds
        kept == SelectSeq(o.entries, LAMBDA e : ~e.tombstoned /\ ~is_expired(e, ttl, t))
    IN  [ob    |-> [o EXCEPT !.entries = kept],
         stats |-> [entries_before     |-> Len(o.entries),
                    entries_after      |-> Len(kept),
                    tombstoned         |-> Len(SelectSeq(o.entries,
                                                LAMBDA e : e.tombstoned)),
                    pruned             |-> Len(SelectSeq(o.entries,
                                                LAMBDA e : is_expired(e, ttl, t))),
                    superseded_removed |-> 0]]

\* OriginalBlackboard::clear.
orig_clear(o) == [o EXCEPT !.entries = <<>>]

(* ------------------------------ cache.rs ------------------------------ *)

\* u64 values are the integers below Modulus.
Modulus == 2 ^ WordBits

\* The build profiles: "debug" has overflow checks, "release" has none.
Builds == {"debug", "release"}

\* CacheEfficiency::default().
CacheEfficiencyDefault ==
    [total_prompt_tokens |-> 0, cached_tokens |-> 0, fresh_tokens |-> 0,
     cache_hits |-> 0, cache_misses |-> 0, active_thumbprint |-> None]

\* A tracker as constructed, in a program built with the given profile.
EffNew(build) == [stats |-> CacheEfficiencyDefault, calls |-> 0, build |-> build]

\* u64::saturating_sub.
saturating_sub(a, b) == IF b > a THEN 0 ELSE a - b

\* The statements of record_call in order, as (field, addend) pairs.
record_call_adds(total_prompt, cached) ==
    <<<<"total_prompt_tokens", total_prompt>>,
      <<"cached_tokens", cached>>,
      <<"fresh_tokens", saturating_sub(total_prompt, cached)>>,
      IF cached > 0 THEN <<"cache_hits", 1>> ELSE <<"cache_misses", 1>> >>

\* `+=` on u64 fields, statement by statement: a sum that does not fit
\* panics in a build with overflow checks, leaving the earlier statements
\* done, and wraps in a build without.
RECURSIVE AddAll(_, _, _)
AddAll(c, adds, build) ==
    IF adds = <<>> THEN [eff |-> c, err |-> ""]
    ELSE LET field == Head(adds)[1]
             sum   == c[field] + Head(adds)[2]
         IN  IF sum >= Modulus /\ build = "debug"
             THEN [eff |-> c, err |-> "panic"]
             ELSE AddAll([c EXCEPT ![field] = sum % Modulus], Tail(adds), build)

\* record_call: [eff |-> the fields afterwards, err |-> "" or "panic"].
record_call(c, total_prompt, cached, build) ==
    AddAll(c, record_call_adds(total_prompt, cached), build)

\* serde_json::Value: strings, arrays and objects, each tagged with its
\* JSON type; an object is a function from its keys.
JString(str) == [json |-> "string", v |-> str]

JArray(items) == [json |-> "array", v |-> items]

JObject(fields) == [json |-> "object", v |-> fields]

\* json!({"type": "text", "text": text}).
text_block(text) == JObject([type |-> JString("text"), text |-> JString(text)])

\* anthropic_cache_marker, and the same literal inside
\* build_cached_message_array.
anthropic_cache_marker(content) ==
    JObject([type |-> JString("text"), text |-> JString(content),
             cache_control |-> JObject([type |-> JString("ephemeral")])])

\* build_cached_message_array with the marker on the first block.
build_cached_message_array_marker_first(system_prompt, blackboard_snapshot, task_context, history) ==
    LET system_content ==
            IF blackboard_snapshot = ""
            THEN JArray(<<text_block(system_prompt)>>)
            ELSE JArray(<<anthropic_cache_marker(system_prompt),
                          text_block(blackboard_snapshot)>>)
    IN  <<JObject([role |-> JString("system"), content |-> system_content]),
          JObject([role |-> JString("user"), content |-> JString(task_context)])>>
        \o history

build_cached_message_array(system_prompt, blackboard_snapshot, task_context, history) ==
    LET system_content ==
            IF blackboard_snapshot = ""
            THEN JArray(<<text_block(system_prompt)>>)
            ELSE JArray(<<text_block(system_prompt),
                          anthropic_cache_marker(blackboard_snapshot)>>)
    IN  <<JObject([role |-> JString("system"), content |-> system_content]),
          JObject([role |-> JString("user"), content |-> JString(task_context)])>>
        \o history

(* ------------------------- inputs of the runs ------------------------- *)

\* BlackboardConfig values of the runs (prune_expired, max_entries,
\* stm_ttl_seconds; the other fields do not reach the hashed store).
Config(prune_expired, max_entries, stm_ttl_seconds) ==
    [prune_expired   |-> prune_expired,
     max_entries     |-> max_entries,
     stm_ttl_seconds |-> stm_ttl_seconds]

Configs == {Config(FALSE, 2, 1), Config(TRUE, 2, 1), Config(TRUE, 1, 0)}

\* Entries built by BlackboardEntry::new and the builder methods at clock
\* reading t (the runs build them at 0 and post them later): a short-lived fact, a decision superseding it, and a child of
\* the fact that supersedes the decision and carries its own ttl.
E1(t) == with_tier(EntryNew("A", "Fact", "x", None, t), "Stm")

E2(t) == with_supersedes(EntryNew("B", "Decision", "go", None, t),
                         <<E1(t).content_hash>>)

E3(t) == with_ttl(with_supersedes(
                     EntryNew("A", "Hypothesis", "go", Some(E1(t).content_hash), t),
                     <<E2(t).content_hash>>), 1)

PostEntries(t) == {E1(t), E2(t), E3(t)}

\* The digests the runs use as arguments of get and tombstone.
Hashes == {E1(0).content_hash, E2(0).content_hash, E3(0).content_hash}

\* A deserialized entry whose hash field is not the digest of its author,
\* content and parent: the content differs from the hashed one.
Forged == [E1(0) EXCEPT !.content = "go"]

\* Payloads of import_entries: entries exported elsewhere (created at 0),
\* one of them already tombstoned, a payload that repeats an entry, and
\* payloads holding the forged entry.
ImportPayloads ==
    {<<E1(0)>>, <<E2(0)>>, <<E3(0)>>,
     <<[E1(0) EXCEPT !.tombstoned = TRUE]>>,
     <<E1(0), E2(0)>>, <<E2(0), E2(0)>>,
     <<Forged>>, <<E3(0), Forged>>}

WellFormed(e) == e.content_hash = compute_hash(e.author, e.content, e.parent_hash)

(* --------------------- sequential runs of one store ------------------- *)

Call(op, ret, err) == [op |-> op, ret |-> ret, err |-> err]

\* The snapshot sequence after one more snapshot() returned snap.
Returned(snap) == IF snaps = <<>> THEN <<snap>> ELSE <<snaps[Len(snaps)], snap>>

Threads == {"t1", "t2"}

\* A thread outside any call.
IdleLoc == [floor |-> 0, snap |-> None, ret |-> None, args |-> <<>>]

\* What the lock-level runs add to the state.
lock_vars == <<todo, guards, ncalls>>

conc == <<pc, loc, order_lock, seen, lock_vars>>

ConcInit ==
    /\ pc = [t \in Threads |-> "idle"]
    /\ loc = [t \in Threads |-> IdleLoc]
    /\ order_lock = None
    /\ seen = [epoch |-> 0, snap |-> 0, posted |-> {}]
    /\ todo = [t \in Threads |-> <<>>]
    /\ guards = [t \in Threads |-> <<>>]
    /\ ncalls = [t \in Threads |-> 0]

Init ==
    /\ bb \in {StoreNew(c) : c \in Configs}
    /\ bbB = bb
    /\ now = 0
    /\ last = Call("new", <<>>, "")
    /\ snaps = <<>>
    /\ ob = OriginalNew(bb.config)
    /\ epoch_snaps = <<>>
    /\ eff = EffNew("release")
    /\ ConcInit

Post(e) ==
    /\ bb' = post(bb, e).bb
    /\ last' = Call("post", <<>>, "")
    /\ snaps' = <<>>
    /\ UNCHANGED <<now, bbB, conc, ob, epoch_snaps, eff>>

Import(entries) ==
    LET r == import_entries(bb, entries)
    IN  /\ bb' = r.bb
        /\ last' = Call("import_entries", <<>>, r.err)
        /\ snaps' = <<>>
        /\ UNCHANGED <<now, bbB, conc, ob, epoch_snaps, eff>>

AdvanceEpoch(iter) ==
    /\ bb.epoch < MaxEpoch
    /\ bb' = advance_epoch(bb, iter).bb
    /\ last' = Call("advance_epoch", <<>>, "")
    /\ snaps' = <<>>
    /\ UNCHANGED <<now, bbB, conc, ob, epoch_snaps, eff>>

Snapshot ==
    LET r == snapshot(bb, now)
    IN  /\ bb' = r.bb
        /\ last' = Call("snapshot", <<>>, "")
        /\ snaps' = Returned(r.ret)
        /\ UNCHANGED <<now, bbB, conc, ob, epoch_snaps, eff>>

Tombstone(h) ==
    LET r == tombstone(bb, h)
    IN  /\ bb' = r.bb
        /\ last' = Call("tombstone", <<>>, r.err)
        /\ snaps' = <<>>
        /\ UNCHANGED <<now, bbB, conc, ob, epoch_snaps, eff>>

Compact ==
    LET r == compact(bb, now)
    IN  /\ bb' = r.bb
        /\ last' = Call("compact",
                        <<r.stats.entries_before, r.stats.entries_after,
                          r.stats.tombstoned, r.stats.pruned,
                          r.stats.superseded_removed>>, "")
        /\ snaps' = <<>>
        /\ UNCHANGED <<now, bbB, conc, ob, epoch_snaps, eff>>

Clear ==
    /\ bb' = clear(bb)
    /\ last' = Call("clear", <<>>, "")
    /\ snaps' = <<>>
    /\ UNCHANGED <<now, bbB, conc, ob, epoch_snaps, eff>>

\* A second of wall-clock time passes.
Tick ==
    /\ now < MaxTime
    /\ now' = now + 1
    /\ UNCHANGED <<bb, last, snaps, bbB, conc, ob, epoch_snaps, eff>>

Next ==
    \/ \E e \in PostEntries(0) : Post(e)
    \/ \E p \in ImportPayloads : Import(p)
    \/ \E iter \in Perms(DOMAIN bb.pending) : AdvanceEpoch(iter)
    \/ Snapshot
    \/ \E h \in Hashes : Tombstone(h)
    \/ Compact
    \/ Clear
    \/ Tick

Spec == Init /\ [][Next]_vars

(* ------------- callers that post in supersession order --------------- *)

\* post(e) by a caller that supersedes only entries the store already holds.
ChainPost(e) ==
    /\ \A h \in Range(e.supersedes) : get(bb, h) # None
    /\ Post(e)

NextChain ==
    \/ \E e \in PostEntries(0) : ChainPost(e)
    \/ \E iter \in Perms(DOMAIN bb.pending) : AdvanceEpoch(iter)
    \/ Snapshot
    \/ \E h \in Hashes : Tombstone(h)
    \/ Compact
    \/ Clear
    \/ Tick

SpecChain == Init /\ [][NextChain]_vars

(* ------------------ two independent stores, same inputs --------------- *)

\* Both stores import the entry set S, each handed its own ordering of it.
ImportBoth(pA, pB) ==
    /\ bb' = import_entries(bb, pA).bb
    /\ bbB' = import_entries(bbB, pB).bb
    /\ last' = Call("import_entries", <<>>, "")
    /\ snaps' = <<>>
    /\ UNCHANGED <<now, conc, ob, epoch_snaps, eff>>

\* Both stores advance their epoch; each map iterates in its own order.
AdvanceBoth(iterA, iterB) ==
    /\ bb.epoch < MaxEpoch
    /\ bb' = advance_epoch(bb, iterA).bb
    /\ bbB' = advance_epoch(bbB, iterB).bb
    /\ last' = Call("advance_epoch", <<>>, "")
    /\ snaps' = <<>>
    /\ UNCHANGED <<now, conc, ob, epoch_snaps, eff>>

\* A snapshot of each store, taken at the same clock reading.
SnapshotBoth ==
    LET rA == snapshot(bb, now)
        rB == snapshot(bbB, now)
    IN  /\ bb' = rA.bb
        /\ bbB' = rB.bb
        /\ last' = Call("snapshot", <<>>, "")
        /\ snaps' = <<rA.ret, rB.ret>>
        /\ UNCHANGED <<now, conc, ob, epoch_snaps, eff>>

TickBoth ==
    /\ now < MaxTime
    /\ now' = now + 1
    /\ UNCHANGED <<bb, bbB, last, snaps, conc, ob, epoch_snaps, eff>>

NextP4 ==
    \/ \E S \in (SUBSET PostEntries(0)) \ {{}} :
          \E pA \in Perms(S), pB \in Perms(S) : ImportBoth(pA, pB)
    \/ \E iterA \in Perms(DOMAIN bb.pending), iterB \in Perms(DOMAIN bbB.pending) :
          AdvanceBoth(iterA, iterB)
    \/ SnapshotBoth
    \/ TickBoth

SpecP4 == Init /\ [][NextP4]_vars

(* ------------------ two stores, the same calls on both ---------------- *)

\* The same entry is posted to both stores.
PostBoth(e) ==
    /\ bb' = post(bb, e).bb
    /\ bbB' = post(bbB, e).bb
    /\ last' = Call("post", <<>>, "")
    /\ snaps' = <<>>
    /\ UNCHANGED <<now, conc, ob, epoch_snaps, eff>>

NextSame ==
    \/ \E e \in PostEntries(0) : PostBoth(e)
    \/ \E iterA \in Perms(DOMAIN bb.pending), iterB \in Perms(DOMAIN bbB.pending) :
          AdvanceBoth(iterA, iterB)
    \/ SnapshotBoth

SpecSame == Init /\ [][NextSame]_vars

(* --------------- two stores, each fed by its own agents --------------- *)

\* The fact E1 as another agent run states it: same author, content and
\* parent (so the same content hash), posted with confidence 0.5.
E1c == with_confidence(E1(0), 50)

PairEntries == {E1(0), E1c, E2(0)}

PostB(e) ==
    /\ bbB' = post(bbB, e).bb
    /\ last' = Call("post", <<>>, "")
    /\ snaps' = <<>>
    /\ UNCHANGED <<bb, now, conc, ob, epoch_snaps, eff>>

AdvanceB(iter) ==
    /\ bbB.epoch < MaxEpoch
    /\ bbB' = advance_epoch(bbB, iter).bb
    /\ last' = Call("advance_epoch", <<>>, "")
    /\ snaps' = <<>>
    /\ UNCHANGED <<bb, now, conc, ob, epoch_snaps, eff>>

InitPair ==
    /\ Init
    /\ bb.config = Config(FALSE, 2, 1)

NextPair ==
    \/ \E e \in PairEntries : Post(e)
    \/ \E e \in PairEntries : PostB(e)
    \/ \E iter \in Perms(DOMAIN bb.pending) : AdvanceEpoch(iter)
    \/ \E iter \in Perms(DOMAIN bbB.pending) : AdvanceB(iter)
    \/ SnapshotBoth
    \/ TickBoth

SpecPair == InitPair /\ [][NextPair]_vars

(* ------------- one store, its snapshots recorded by epoch ------------- *)

\* snapshot(), the caller keeping the first snapshot seen for each epoch
\* value (an agent's prompt prefix for that epoch).
SnapshotRecord ==
    LET r == snapshot(bb, now)
    IN  /\ bb' = r.bb
        /\ last' = Call("snapshot", <<>>, "")
        /\ snaps' = Returned(r.ret)
        /\ epoch_snaps' = IF r.ret.epoch \in DOMAIN epoch_snaps THEN epoch_snaps
                          ELSE MapInsert(epoch_snaps, r.ret.epoch, r.ret)
        /\ UNCHANGED <<now, bbB, conc, ob, eff>>

InitEpochs ==
    /\ Init
    /\ bb.config = Config(TRUE, 2, 1)

NextEpochs ==
    \/ \E e \in {E1(0), E2(0)} : Post(e)
    \/ \E iter \in Perms(DOMAIN bb.pending) : AdvanceEpoch(iter)
    \/ SnapshotRecord
    \/ Tombstone(E2(0).content_hash)
    \/ Compact
    \/ Tick

SpecEpochs == InitEpochs /\ [][NextEpochs]_vars

(* ------------- export to a fresh store and import there --------------- *)

\* End-to-end scenario "idempotent import": export the source store bb,
\* import the payload into a fresh store, advance its epoch, and take a
\* snapshot of both stores.  exp and iter are the iteration orders of the
\* source's live map and of the fresh store's pending map.
RoundTrip(exp, iter) ==
    LET payload  == export_entries(bb, exp)
        imported == import_entries(StoreNew(bb.config), payload).bb
        advanced == advance_epoch(imported, iter).bb
        rA == snapshot(bb, now)
        rB == snapshot(advanced, now)
    IN  /\ bb' = rA.bb
        /\ bbB' = rB.bb
        /\ last' = Call("round_trip", <<>>, "")
        /\ snaps' = <<rA.ret, rB.ret>>
        /\ UNCHANGED <<now, conc, ob, epoch_snaps, eff>>

NextRT ==
    \/ \E e \in {E1(0), E2(0)} : Post(e)
    \/ \E iter \in Perms(DOMAIN bb.pending) : AdvanceEpoch(iter)
    \/ \E exp \in Perms(DOMAIN bb.live), iter \in Perms(DOMAIN bb.live) :
          RoundTrip(exp, iter)

SpecRT == Init /\ [][NextRT]_vars

(* ------------------- runs of the original flavor ---------------------- *)

hashed == <<bb, bbB, snaps, epoch_snaps>>

OrigPost(e) ==
    /\ ob' = orig_post(ob, e).ob
    /\ last' = Call("post", <<>>, "")
    /\ UNCHANGED <<now, hashed, conc, eff>>

OrigImport(entries) ==
    LET r == orig_import_entries(ob, entries)
    IN  /\ ob' = r.ob
        /\ last' = Call("import_entries", r.ret, "")
        /\ UNCHANGED <<now, hashed, conc, eff>>

OrigTombstone(h) ==
    LET r == orig_tombstone(ob, h)
    IN  /\ ob' = r.ob
        /\ last' = Call("tombstone", <<>>, r.err)
        /\ UNCHANGED <<now, hashed, conc, eff>>

OrigCompact ==
    LET r == orig_compact(ob, now)
    IN  /\ ob' = r.ob
        /\ last' = Call("compact",
                        <<r.stats.entries_before, r.stats.entries_after,
                          r.stats.tombstoned, r.stats.pruned,
                          r.stats.superseded_removed>>, "")
        /\ UNCHANGED <<now, hashed, conc, eff>>

OrigClear ==
    /\ ob' = orig_clear(ob)
    /\ last' = Call("clear", <<>>, "")
    /\ UNCHANGED <<now, hashed, conc, eff>>

NextOriginal ==
    \/ \E e \in PostEntries(0) : OrigPost(e)
    \/ \E p \in ImportPayloads : OrigImport(p)
    \/ \E h \in Hashes : OrigTombstone(h)
    \/ OrigCompact
    \/ OrigClear
    \/ Tick

SpecOriginal == Init /\ [][NextOriginal]_vars

(* ------------------------- runs with queries -------------------------- *)

\* A second fact, by another author and with a lower confidence.
E4(t) == with_confidence(EntryNew("B", "Fact", "x", None, t), 50)

QueryEntries == {E1(0), E3(0), E4(0)}

QueryHashes == {e.content_hash : e \in QueryEntries}

\* Queries built with the constructors and the public fields of
\* BlackboardQuery.
Queries ==
    {by_author("A"), with_limit(by_type("Fact"), 1),
     [by_type("Fact") EXCEPT !.authors = Some(<<"B">>)],
     children_of(E1(0).content_hash), children_of(E4(0).content_hash),
     with_min_confidence(by_type("Fact"), 60),
     [QueryNew("GO") EXCEPT !.include_tombstoned = TRUE]}

\* query(q); the call's query, its clock reading and its results are kept.
\* The iteration orders of the maps matter to a full scan only.
Query(q, live_iter, pending_iter) ==
    /\ candidate_hashes(bb, q) # None =>
          /\ live_iter = SetToSeq(DOMAIN bb.live)
          /\ pending_iter = SetToSeq(DOMAIN bb.pending)
    /\ last' = Call("query",
                    <<q, now, query(bb, q, now, live_iter, pending_iter)>>,
                    "")
    /\ UNCHANGED <<bb, now, snaps, bbB, conc, ob, epoch_snaps, eff>>

\* Stores with and without a default Stm TTL.
InitQuery ==
    /\ Init
    /\ bb.config \in {Config(TRUE, 2, 1), Config(TRUE, 1, 0)}

NextQuery ==
    \/ \E e \in QueryEntries : Post(e)
    \/ \E iter \in Perms(DOMAIN bb.pending) : AdvanceEpoch(iter)
    \/ \E h \in QueryHashes : Tombstone(h)
    \/ Compact
    \/ Tick
    \/ \E q \in Queries :
          \E li \in Perms(DOMAIN bb.live), pi \in Perms(DOMAIN bb.pending) :
              Query(q, li, pi)

SpecQuery == InitQuery /\ [][NextQuery]_vars

(* ---------------- runs with entries of several kinds ------------------- *)

\* A decision, an observation and a partial result.
D1 == EntryNew("A", "Decision", "x", None, 0)

O1 == EntryNew("A", "Observation", "go", None, 0)

P1 == EntryNew("B", "Partial", "x", None, 0)

RenderEntries == {D1, O1, P1}

InitRender ==
    /\ Init
    /\ bb.config = Config(FALSE, 2, 1)

NextRender ==
    \/ \E e \in RenderEntries : Post(e)
    \/ \E iter \in Perms(DOMAIN bb.pending) : AdvanceEpoch(iter)
    \/ Snapshot

SpecRender == InitRender /\ [][NextRender]_vars

(* -------------------- entries built and hashed ------------------------ *)

\* Two parent digests, abbreviated to nine bytes, that agree on the first
\* eight.
ParentA == <<7, 0, 0, 0, 0, 0, 0, 0, 1>>

ParentB == <<7, 0, 0, 0, 0, 0, 0, 0, 2>>

\* The (author, content, parent) triples handed to compute_hash.
HashInputs ==
    [author  : {"a", "ab"},
     content : {"c", "bc", "d"},
     parent  : {None, Some(ParentA), Some(ParentB)}]

\* compute_hash on two triples; both triples and both results are kept.
ComputeHash(x, y) ==
    /\ last' = Call("compute_hash",
                    <<x, y, compute_hash_out(x.author, x.content, x.parent),
                      compute_hash_out(y.author, y.content, y.parent)>>, "")
    /\ UNCHANGED <<bb, now, snaps, bbB, conc, ob, epoch_snaps, eff>>

\* BlackboardEntry::new at clock reading t; the entry is kept twice, as
\* built and as the builders leave it.
NewEntry(author, entry_type, content, parent_hash, t) ==
    LET e == EntryNew(author, entry_type, content, parent_hash, t)
    IN  /\ last' = Call("new_entry", <<e, e>>, "")
        /\ UNCHANGED <<bb, now, snaps, bbB, conc, ob, epoch_snaps, eff>>

\* The builder methods, each with one argument.
Builders(e) ==
    {with_tier(e, "Ltm"), with_confidence(e, 50),
     with_supersedes(e, <<E1(0).content_hash>>), with_ttl(e, 1)}

\* One builder method applied to the entry built last.
Builder ==
    /\ last.op \in {"new_entry", "builder"}
    /\ \E e \in Builders(last.ret[2]) :
          last' = Call("builder", <<last.ret[1], e>>, "")
    /\ UNCHANGED <<bb, now, snaps, bbB, conc, ob, epoch_snaps, eff>>

NextHash ==
    \/ \E x, y \in HashInputs : ComputeHash(x, y)
    \/ \E author \in {"A", "B"}, entry_type \in {"Fact", "Veto"},
          content \in {"x", "go"},
          parent_hash \in {None, Some(E1(0).content_hash)}, t \in 0..MaxTime :
          NewEntry(author, entry_type, content, parent_hash, t)
    \/ Builder

SpecHash == InitRender /\ [][NextHash]_vars

(* ------------------- runs of one efficiency tracker ------------------- *)

\* Token counts passed to record_call: small ones and the largest u64s.
Tokens == {0, 1, Modulus - 2, Modulus - 1}

RecordCall(total_prompt, cached) ==
    LET r == record_call(eff.stats, total_prompt, cached, eff.build)
    IN  /\ eff.calls < MaxCalls
        /\ eff' = [eff EXCEPT !.stats = r.eff, !.calls = @ + 1]
        /\ last' = Call("record_call", <<total_prompt, cached>>, r.err)
        /\ UNCHANGED <<bb, now, snaps, bbB, conc, ob, epoch_snaps>>

InitEfficiency ==
    /\ bb = StoreNew(Config(FALSE, 2, 1))
    /\ bbB = bb
    /\ now = 0
    /\ last = Call("new", <<>>, "")
    /\ snaps = <<>>
    /\ ob = OriginalNew(bb.config)
    /\ epoch_snaps = <<>>
    /\ eff \in {EffNew(build) : build \in Builds}
    /\ ConcInit

NextEfficiency == \E total_prompt, cached \in Tokens : RecordCall(total_prompt, cached)

SpecEfficiency == InitEfficiency /\ [][NextEfficiency]_vars

(* ---------------------- prompts assembled ----------------------------- *)

\* Messages of earlier turns: plain text, a block array, and a block array
\* whose block the caller marked with anthropic_cache_marker.
HistoryMessages ==
    {JObject([role |-> JString("user"), content |-> JString("hi")]),
     JObject([role |-> JString("assistant"),
              content |-> JArray(<<text_block("ok")>>)]),
     JObject([role |-> JString("user"),
              content |-> JArray(<<anthropic_cache_marker("doc")>>)])}

\* The histories of at most MaxHistory messages.
Histories == UNION {[1..n -> HistoryMessages] : n \in 0..MaxHistory}

\* build_cached_message_array; the arguments and the result are kept.
BuildMessages(system_prompt, blackboard_snapshot, task_context, history) ==
    /\ last' = Call("build_cached_message_array",
                    <<[system_prompt |-> system_prompt,
                       blackboard_snapshot |-> blackboard_snapshot,
                       task_context |-> task_context, history |-> history],
                      build_cached_message_array(system_prompt,
                          blackboard_snapshot, task_context, history)>>, "")
    /\ UNCHANGED <<bb, now, snaps, bbB, conc, ob, epoch_snaps, eff>>

NextPrompt ==
    \E system_prompt \in {"", "role"}, blackboard_snapshot \in {"", "snap"},
       task_context \in {"", "task"}, history \in Histories :
        BuildMessages(system_prompt, blackboard_snapshot, task_context, history)

SpecPrompt == InitRender /\ [][NextPrompt]_vars

(* ----------------- sequential runs with the clock held ---------------- *)

\* A new store; the clock reads the same value throughout the run.
InitFixed ==
    /\ bb \in {StoreNew(c) : c \in Configs}
    /\ bbB = bb
    /\ now \in 0..MaxTime
    /\ last = Call("new", <<>>, "")
    /\ snaps = <<>>
    /\ ob = OriginalNew(bb.config)
    /\ epoch_snaps = <<>>
    /\ eff = EffNew("release")
    /\ ConcInit

NextFixed ==
    \/ \E e \in PostEntries(0) : Post(e)
    \/ \E p \in ImportPayloads : Import(p)
    \/ \E iter \in Perms(DOMAIN bb.pending) : AdvanceEpoch(iter)
    \/ Snapshot
    \/ \E h \in Hashes : Tombstone(h)
    \/ Compact
    \/ Clear

SpecFixed == InitFixed /\ [][NextFixed]_vars

(* ------------------- concurrent callers of one store ------------------ *)

Max(a, b) == IF a >= b THEN a ELSE b

seq_vars == <<now, last, snaps, bbB, ob, epoch_snaps, eff, lock_vars>>

\* The thread returns the epoch value e, from epoch() (kind "epoch") or
\* inside a snapshot (kind "snap"); floor is the largest value calls of that
\* kind had returned when this call began.
ReturnEpoch(t, kind, e, floor) ==
    /\ loc' = [loc EXCEPT ![t] = [floor |-> floor, snap |-> None,
                                  ret |-> Some(e), args |-> <<>>]]
    /\ seen' = [seen EXCEPT ![kind] = Max(@, e)]
    /\ pc' = [pc EXCEPT ![t] = "idle"]

\* epoch(): one relaxed load.
CallEpoch(t) ==
    /\ pc[t] = "idle"
    /\ ReturnEpoch(t, "epoch", epoch(bb), seen.epoch)
    /\ UNCHANGED <<bb, order_lock, seq_vars>>

\* snapshot(), line 223: read the memo slot; return the memoized snapshot
\* if there is one.
SnapCheck(t) ==
    /\ pc[t] = "idle"
    /\ IF bb.cached_snapshot # None
       THEN ReturnEpoch(t, "snap", bb.cached_snapshot[1].epoch, seen.snap)
       ELSE /\ pc' = [pc EXCEPT ![t] = "snap_build"]
            /\ loc' = [loc EXCEPT ![t] = [floor |-> seen.snap, snap |-> None,
                                          ret |-> None, args |-> <<>>]]
            /\ UNCHANGED seen
    /\ UNCHANGED <<bb, order_lock, seq_vars>>

\* snapshot(), line 227: build under canonical_order's read lock.
SnapBuild(t) ==
    /\ pc[t] = "snap_build"
    /\ order_lock = None
    /\ loc' = [loc EXCEPT ![t].snap = Some(build_snapshot(bb, now))]
    /\ pc' = [pc EXCEPT ![t] = "snap_store"]
    /\ UNCHANGED <<bb, order_lock, seen, seq_vars>>

\* snapshot(), lines 228-229: memoize the built snapshot and return it.
SnapStore(t) ==
    /\ pc[t] = "snap_store"
    /\ bb' = store_snapshot(bb, loc[t].snap[1])
    /\ ReturnEpoch(t, "snap", loc[t].snap[1].epoch, loc[t].floor)
    /\ UNCHANGED <<order_lock, seq_vars>>

\* advance_epoch(), line 244: take canonical_order's write lock.
AdvLock(t) ==
    /\ pc[t] = "idle"
    /\ order_lock = None
    /\ bb.epoch < MaxEpoch
    /\ order_lock' = Some(t)
    /\ pc' = [pc EXCEPT ![t] = "adv_promote"]
    /\ UNCHANGED <<bb, loc, seen, seq_vars>>

\* advance_epoch(), lines 246-251.
AdvPromote(t, iter) ==
    /\ pc[t] = "adv_promote"
    /\ bb' = adv_promote(bb, iter)
    /\ pc' = [pc EXCEPT ![t] = "adv_clear"]
    /\ UNCHANGED <<loc, order_lock, seen, seq_vars>>

\* advance_epoch(), line 252.
AdvClear(t) ==
    /\ pc[t] = "adv_clear"
    /\ bb' = adv_clear(bb)
    /\ pc' = [pc EXCEPT ![t] = "adv_invalidate"]
    /\ UNCHANGED <<loc, order_lock, seen, seq_vars>>

\* advance_epoch(), line 255.
AdvInvalidate(t) ==
    /\ pc[t] = "adv_invalidate"
    /\ bb' = invalidate(bb)
    /\ pc' = [pc EXCEPT ![t] = "adv_bump"]
    /\ UNCHANGED <<loc, order_lock, seen, seq_vars>>

\* advance_epoch(), lines 258-260: bump, return, drop the write lock.
AdvBump(t) ==
    /\ pc[t] = "adv_bump"
    /\ bb' = adv_bump(bb)
    /\ order_lock' = None
    /\ pc' = [pc EXCEPT ![t] = "idle"]
    /\ UNCHANGED <<loc, seen, seq_vars>>

\* post, tombstone, compact and clear, each run without interruption by a
\* thread outside any other call; compact and clear take canonical_order's
\* write lock on their way.
ConcPost(t, e) ==
    /\ pc[t] = "idle"
    /\ bb' = post(bb, e).bb
    /\ seen' = [seen EXCEPT !.posted = @ \cup {post(bb, e).ret}]
    /\ UNCHANGED <<pc, loc, order_lock, seq_vars>>

ConcTombstone(t, h) ==
    /\ pc[t] = "idle"
    /\ bb' = tombstone(bb, h).bb
    /\ UNCHANGED <<conc, seq_vars>>

ConcCompact(t) ==
    /\ pc[t] = "idle"
    /\ order_lock = None
    /\ bb' = compact(bb, now).bb
    /\ seen' = [seen EXCEPT !.posted = @ \ ((DOMAIN bb.live) \ (DOMAIN bb'.live))]
    /\ UNCHANGED <<pc, loc, order_lock, seq_vars>>

ConcClear(t) ==
    /\ pc[t] = "idle"
    /\ order_lock = None
    /\ bb' = clear(bb)
    /\ seen' = [seen EXCEPT !.posted = {}]
    /\ UNCHANGED <<pc, loc, order_lock, seq_vars>>

InitConc ==
    /\ bb = StoreNew(Config(TRUE, 1, 1))
    /\ bbB = bb
    /\ now = 0
    /\ last = Call("new", <<>>, "")
    /\ snaps = <<>>
    /\ ob = OriginalNew(bb.config)
    /\ epoch_snaps = <<>>
    /\ eff = EffNew("release")
    /\ ConcInit

NextConc ==
    \E t \in Threads :
        \/ CallEpoch(t)
        \/ SnapCheck(t)
        \/ SnapBuild(t)
        \/ SnapStore(t)
        \/ AdvLock(t)
        \/ \E iter \in Perms(DOMAIN bb.pending) : AdvPromote(t, iter)
        \/ AdvClear(t)
        \/ AdvInvalidate(t)
        \/ AdvBump(t)
        \/ \E e \in {E1(0), E2(0)} : ConcPost(t, e)
        \/ \E h \in {E1(0).content_hash} : ConcTombstone(t, h)
        \/ ConcCompact(t)
        \/ ConcClear(t)

SpecConc == InitConc /\ [][NextConc]_vars

(* ------------- post_batch beside advance_epoch and snapshot ----------- *)

\* The entries of the one batch the runs post.
BatchEntries == {D1, O1}

BatchHashes == {e.content_hash : e \in BatchEntries}

\* post_batch(entries) begins: the iterator over `entries` is created.
\* The runs post the batch once, into a store that holds none of it.
BatchStart(t, entries) ==
    /\ \A u \in Threads : pc[u] # "post_batch"
    /\ BatchHashes \cap ((DOMAIN bb.live) \cup (DOMAIN bb.pending)) = {}
    /\ pc[t] = "idle"
    /\ pc' = [pc EXCEPT ![t] = "post_batch"]
    /\ loc' = [loc EXCEPT ![t].args = entries]
    /\ UNCHANGED <<bb, order_lock, seen, seq_vars>>

\* post_batch: map's closure posts the next entry; after the last one the
\* call returns.
BatchPost(t) ==
    /\ pc[t] = "post_batch"
    /\ bb' = post(bb, Head(loc[t].args)).bb
    /\ seen' = [seen EXCEPT !.posted = @ \cup {Head(loc[t].args).content_hash}]
    /\ loc' = [loc EXCEPT ![t].args = Tail(@)]
    /\ pc' = [pc EXCEPT ![t] = IF Tail(loc[t].args) = <<>> THEN "idle"
                               ELSE "post_batch"]
    /\ UNCHANGED <<order_lock, seq_vars>>

NextBatch ==
    \E t \in Threads :
        \/ \E entries \in Perms(BatchEntries) : BatchStart(t, entries)
        \/ BatchPost(t)
        \/ SnapCheck(t)
        \/ SnapBuild(t)
        \/ SnapStore(t)
        \/ AdvLock(t)
        \/ \E iter \in Perms(DOMAIN bb.pending) : AdvPromote(t, iter)
        \/ AdvClear(t)
        \/ AdvInvalidate(t)
        \/ AdvBump(t)

SpecBatch == InitConc /\ [][NextBatch]_vars

(* ----------------------- post beside clear ---------------------------- *)

\* A child of D1.
K1 == EntryNew("B", "Fact", "go", Some(D1.content_hash), 0)

ClearEntries == {D1, K1}

\* post(e), lines 122-127: the duplicate check; a duplicate returns at once.
PostCheck(t, e) ==
    /\ pc[t] = "idle"
    /\ IF e.content_hash \in (DOMAIN bb.live) \cup (DOMAIN bb.pending)
       THEN UNCHANGED <<pc, loc>>
       ELSE /\ pc' = [pc EXCEPT ![t] = "post_supersede"]
            /\ loc' = [loc EXCEPT ![t].args = <<e>>]
    /\ UNCHANGED <<bb, order_lock, seen, seq_vars>>

\* post(e), lines 130-134: the supersession loop.
PostSupersede(t) ==
    /\ pc[t] = "post_supersede"
    /\ bb' = [bb EXCEPT !.live = Supersede(@, loc[t].args[1].supersedes)]
    /\ pc' = [pc EXCEPT ![t] = "post_index"]
    /\ UNCHANGED <<loc, order_lock, seen, seq_vars>>

\* post(e), line 137.
PostIndex(t) ==
    /\ pc[t] = "post_index"
    /\ bb' = index_entry(bb, loc[t].args[1])
    /\ pc' = [pc EXCEPT ![t] = "post_insert"]
    /\ UNCHANGED <<loc, order_lock, seen, seq_vars>>

\* post(e), line 140.
PostInsert(t) ==
    /\ pc[t] = "post_insert"
    /\ bb' = [bb EXCEPT !.pending = MapInsert(@, loc[t].args[1].content_hash,
                                              loc[t].args[1])]
    /\ pc' = [pc EXCEPT ![t] = "post_invalidate"]
    /\ UNCHANGED <<loc, order_lock, seen, seq_vars>>

\* post(e), lines 143-145: drop the memoized snapshot and return.
PostInvalidate(t) ==
    /\ pc[t] = "post_invalidate"
    /\ bb' = invalidate(bb)
    /\ seen' = [seen EXCEPT !.posted = @ \cup {loc[t].args[1].content_hash}]
    /\ loc' = [loc EXCEPT ![t].args = <<>>]
    /\ pc' = [pc EXCEPT ![t] = "idle"]
    /\ UNCHANGED <<order_lock, seq_vars>>

\* The statements of clear() after the first, by the position of the
\* thread that is about to run them.
ClearPc == <<"clear_pending", "clear_by_type", "clear_by_author",
             "clear_by_parent", "clear_order", "clear_cache">>

\* One statement of clear(), lines 359-364.
ClearStatement(s, i) ==
    CASE i = 1 -> [s EXCEPT !.pending = <<>>]
      [] i = 2 -> [s EXCEPT !.by_type = <<>>]
      [] i = 3 -> [s EXCEPT !.by_author = <<>>]
      [] i = 4 -> [s EXCEPT !.by_parent = <<>>]
      [] i = 5 -> [s EXCEPT !.canonical_order = <<>>]
      [] i = 6 -> [s EXCEPT !.cached_snapshot = None]

\* clear(), line 358: live.clear().
ClearLive(t) ==
    /\ pc[t] = "idle"
    /\ bb' = [bb EXCEPT !.live = <<>>]
    /\ pc' = [pc EXCEPT ![t] = ClearPc[1]]
    /\ UNCHANGED <<loc, order_lock, seen, seq_vars>>

\* clear(), lines 359-365: the next statement; the call returns after the
\* last one.  canonical_order is cleared under its write lock.
ClearStep(t) ==
    \E i \in 1..Len(ClearPc) :
        /\ pc[t] = ClearPc[i]
        /\ i = 5 => order_lock = None
        /\ bb' = ClearStatement(bb, i)
        /\ pc' = [pc EXCEPT ![t] = IF i = Len(ClearPc) THEN "idle"
                                   ELSE ClearPc[i + 1]]
        /\ UNCHANGED <<loc, order_lock, seen, seq_vars>>

NextClear ==
    \E t \in Threads :
        \/ \E e \in ClearEntries : PostCheck(t, e)
        \/ PostSupersede(t)
        \/ PostIndex(t)
        \/ PostInsert(t)
        \/ PostInvalidate(t)
        \/ ClearLive(t)
        \/ ClearStep(t)

SpecClear == InitConc /\ [][NextClear]_vars

(* ---------------- post and import beside advance_epoch ---------------- *)

\* import_entries, run without interruption by a thread outside any other
\* call.
ConcImport(t, entries) ==
    /\ pc[t] = "idle"
    /\ bb' = import_entries(bb, entries).bb
    /\ UNCHANGED <<conc, seq_vars>>

NextPromote ==
    \E t \in Threads :
        \/ PostCheck(t, D1)
        \/ PostSupersede(t)
        \/ PostIndex(t)
        \/ PostInsert(t)
        \/ PostInvalidate(t)
        \/ ConcImport(t, <<K1>>)
        \/ AdvLock(t)
        \/ \E iter \in Perms(DOMAIN bb.pending) : AdvPromote(t, iter)
        \/ AdvClear(t)
        \/ AdvInvalidate(t)
        \/ AdvBump(t)
        \/ SnapCheck(t)
        \/ SnapBuild(t)
        \/ SnapStore(t)

SpecPromote == InitConc /\ [][NextPromote]_vars

(* --------------- every call beside advance_epoch ---------------------- *)

NextCount ==
    \E t \in Threads :
        \/ CallEpoch(t)
        \/ SnapCheck(t)
        \/ SnapBuild(t)
        \/ SnapStore(t)
        \/ AdvLock(t)
        \/ \E iter \in Perms(DOMAIN bb.pending) : AdvPromote(t, iter)
        \/ AdvClear(t)
        \/ AdvInvalidate(t)
        \/ AdvBump(t)
        \/ ConcPost(t, D1)
        \/ ConcImport(t, <<D1>>)
        \/ ConcTombstone(t, D1.content_hash)
        \/ ConcCompact(t)
        \/ ConcClear(t)

SpecCount == InitConc /\ [][NextCount]_vars

(* ------------------- the locks the calls take ------------------------- *)

\* Each thread begins at most this many calls in a lock-level run.
MaxLockCalls == 1

\* The shards of a DashMap, in the order its iterators visit them; each shard
\* sits behind its own lock.
ShardOrder == <<1, 2>>

Shards == Range(ShardOrder)

\* The two `RwLock` fields and the shards of the five maps.
canonical_order_lock == <<"canonical_order", 0>>
cached_snapshot_lock == <<"cached_snapshot", 0>>
shard(map, s) == <<map, s>>

\* Steps of a call: take a guard, drop a guard, take a guard and drop it at
\* the end of the same statement, or branch on the data (alts the step
\* sequences of the branches).
Acq(l, m) == <<"acq", l, m>>
Rel(l, m) == <<"rel", l, m>>
Touch(l, m) == <<"touch", l, m>>
Branch(alts) == <<"branch", alts>>

\* A body that runs or not: an `if`, an `if let Some(..)`, a loop over the
\* entries found (none or one).
Maybe(steps) == Branch({<<>>, steps})

\* A step on the shard the key hashes to.
Key(map, m) == Branch({<<Touch(shard(map, s), m)>> : s \in Shards})

RECURSIVE Flat(_)
Flat(ss) == IF ss = <<>> THEN <<>> ELSE Head(ss) \o Flat(Tail(ss))

\* One step sequence per shard, in shard order.
EachShard(F(_)) == Flat([i \in 1..Len(ShardOrder) |-> F(ShardOrder[i])])

\* `map.iter()`, `map.len()`: a read guard on each shard in turn.
ScanShards(map) == EachShard(LAMBDA s : <<Touch(shard(map, s), "r")>>)

\* `map.clear()`: a write guard on each shard in turn.
ClearShards(map) == EachShard(LAMBDA s : <<Touch(shard(map, s), "w")>>)

\* index_entry: `entry(..).or_default().push(..)` on each index; by_parent
\* only for an entry with a parent.
index_entry_locks ==
    <<Key("by_type", "w"), Key("by_author", "w"), Maybe(<<Key("by_parent", "w")>>)>>

\* deindex_entry: `get_mut(..)` on each index.
deindex_entry_locks ==
    <<Key("by_type", "w"), Key("by_author", "w"), Maybe(<<Key("by_parent", "w")>>)>>

\* build_snapshot: canonical_order's read guard is held for the whole body;
\* `live.get(hash)` for the hashes of the order.
build_snapshot_locks ==
    <<Acq(canonical_order_lock, "r"), Maybe(<<Key("live", "r")>>),
      Rel(canonical_order_lock, "r")>>

\* post: the two contains_key tests, each of which may return early; then
\* `live.get_mut` for a superseded hash, index_entry, `pending.insert` and
\* the invalidation.
post_locks ==
    <<Key("live", "r"),
      Maybe(<<Key("pending", "r"),
              Maybe(<<Maybe(<<Key("live", "w")>>)>>
                    \o index_entry_locks
                    \o <<Key("pending", "w"), Touch(cached_snapshot_lock, "w")>>)>>)>>

\* get: `live.get`, then `pending.get` if live has no such key.
get_locks == <<Key("live", "r"), Maybe(<<Key("pending", "r")>>)>>

\* query: through one of the indexes and then a lookup of the candidate
\* hash, or a full scan of live and then pending.
query_locks ==
    <<Branch({ScanShards("live") \o ScanShards("pending")}
             \cup {<<Key(index, "r"), Maybe(get_locks)>> :
                     index \in {"by_type", "by_author", "by_parent"}})>>

\* snapshot with the read guard of its first statement kept until the call
\* returns.
snapshot_locks_guard_kept ==
    <<Acq(cached_snapshot_lock, "r"),
      Maybe(build_snapshot_locks \o <<Touch(cached_snapshot_lock, "w")>>),
      Rel(cached_snapshot_lock, "r")>>

\* snapshot: the memo slot is read and its guard dropped; on a miss the
\* snapshot is built and the slot written.
snapshot_locks ==
    <<Touch(cached_snapshot_lock, "r"),
      Maybe(build_snapshot_locks \o <<Touch(cached_snapshot_lock, "w")>>)>>

\* advance_epoch: canonical_order's write guard is held throughout; while
\* the iterator holds a pending shard, `live.insert` runs for the entry of
\* that shard.
advance_epoch_locks ==
    <<Acq(canonical_order_lock, "w")>>
    \o EachShard(LAMBDA s : <<Acq(shard("pending", s), "r"),
                              Maybe(<<Key("live", "w")>>),
                              Rel(shard("pending", s), "r")>>)
    \o ClearShards("pending")
    \o <<Touch(cached_snapshot_lock, "w"), Rel(canonical_order_lock, "w")>>

\* tombstone: `live.get_mut` takes the shard's write guard; if the key is
\* there, the memo slot is written while that guard is still held.
tombstone_locks ==
    <<Branch({<<Acq(shard("live", s), "w"),
                Branch({<<Touch(cached_snapshot_lock, "w"), Rel(shard("live", s), "w")>>,
                        <<Rel(shard("live", s), "w"), Key("pending", "w")>>})>> :
              s \in Shards})>>

\* compact: `live.len()`; the scan for to_remove; the scan for
\* superseded_to_remove, whose filter scans live again while the outer
\* iterator holds its shard; the two removal loops; `order.retain` with a
\* lookup in live under canonical_order's write guard; the eviction; the
\* invalidation; `live.len()`.
compact_locks ==
    LET remove == <<Key("live", "w"), Maybe(deindex_entry_locks)>>
    IN  ScanShards("live")
        \o ScanShards("live")
        \o EachShard(LAMBDA s : <<Acq(shard("live", s), "r"),
                                  Maybe(ScanShards("live")),
                                  Rel(shard("live", s), "r")>>)
        \o <<Maybe(remove), Maybe(remove)>>
        \o <<Acq(canonical_order_lock, "w"), Maybe(<<Key("live", "r")>>),
             Rel(canonical_order_lock, "w")>>
        \o ScanShards("live")
        \o <<Maybe(ScanShards("live")
                   \o <<Touch(canonical_order_lock, "r"), Maybe(remove),
                        Touch(canonical_order_lock, "w")>>)>>
        \o <<Touch(cached_snapshot_lock, "w")>>
        \o ScanShards("live")

\* clear.
clear_locks ==
    ClearShards("live") \o ClearShards("pending") \o ClearShards("by_type")
    \o ClearShards("by_author") \o ClearShards("by_parent")
    \o <<Touch(canonical_order_lock, "w"), Touch(cached_snapshot_lock, "w")>>

\* The threads holding a guard of mode m on lock l.
Holders(l, m) ==
    {t \in Threads : \E i \in 1..Len(guards[t]) : guards[t][i] = <<l, m>>}

\* Another thread stands at a write acquisition of l.
WriterWaiting(t, l) ==
    \E u \in Threads \ {t} :
        /\ todo[u] # <<>>
        /\ Head(todo[u])[1] \in {"acq", "touch"}
        /\ Head(todo[u])[2] = l
        /\ Head(todo[u])[3] = "w"

\* Whether the lock grants thread t a guard of mode m now. A writer needs
\* the lock free. A reader needs it free of writers: a DashMap shard lets a
\* reader in beside readers even while a writer waits, whereas parking_lot's
\* RwLock (canonical_order, cached_snapshot) makes it wait behind a waiting
\* writer.
CanAcquire(t, l, m) ==
    IF m = "w"
    THEN Holders(l, "r") = {} /\ Holders(l, "w") = {}
    ELSE /\ Holders(l, "w") = {}
         /\ l \in {canonical_order_lock, cached_snapshot_lock}
                => ~WriterWaiting(t, l)

\* The guards gs without the latest guard g.
RECURSIVE DropGuard(_, _)
DropGuard(gs, g) ==
    IF gs = <<>> THEN <<>>
    ELSE IF gs[Len(gs)] = g THEN SubSeq(gs, 1, Len(gs) - 1)
    ELSE Append(DropGuard(SubSeq(gs, 1, Len(gs) - 1), g), gs[Len(gs)])

store_vars == <<bb, now, last, snaps, bbB, pc, loc, order_lock, seen, ob, epoch_snaps, eff>>

\* A thread outside any call begins the call whose lock steps are steps.
LockCall(t, steps) ==
    /\ todo[t] = <<>>
    /\ todo' = [todo EXCEPT ![t] = steps]
    /\ ncalls' = [ncalls EXCEPT ![t] = @ + 1]
    /\ UNCHANGED <<guards, store_vars>>

BeginPost(t) ==
    /\ ncalls[t] < MaxLockCalls
    /\ LockCall(t, post_locks)

BeginGet(t) ==
    /\ ncalls[t] < MaxLockCalls
    /\ LockCall(t, get_locks)

BeginQuery(t) ==
    /\ ncalls[t] < MaxLockCalls
    /\ LockCall(t, query_locks)

BeginSnapshot(t) ==
    /\ ncalls[t] < MaxLockCalls
    /\ LockCall(t, snapshot_locks)

BeginAdvanceEpoch(t) ==
    /\ ncalls[t] < MaxLockCalls
    /\ LockCall(t, advance_epoch_locks)

BeginTombstone(t) ==
    /\ ncalls[t] < MaxLockCalls
    /\ LockCall(t, tombstone_locks)

BeginCompact(t) ==
    /\ ncalls[t] < MaxLockCalls
    /\ LockCall(t, compact_locks)

BeginClear(t) ==
    /\ ncalls[t] < MaxLockCalls
    /\ LockCall(t, clear_locks)

\* The thread takes the branch the data sends it down.
LockBranch(t) ==
    /\ todo[t] # <<>>
    /\ Head(todo[t])[1] = "branch"
    /\ \E alt \in Head(todo[t])[2] : todo' = [todo EXCEPT ![t] = alt \o Tail(@)]
    /\ UNCHANGED <<guards, ncalls, store_vars>>

\* The thread takes the guard it stands at and keeps it.
LockAcquire(t) ==
    /\ todo[t] # <<>>
    /\ Head(todo[t])[1] = "acq"
    /\ CanAcquire(t, Head(todo[t])[2], Head(todo[t])[3])
    /\ guards' = [guards EXCEPT ![t] = Append(@, <<Head(todo[t])[2], Head(todo[t])[3]>>)]
    /\ todo' = [todo EXCEPT ![t] = Tail(@)]
    /\ UNCHANGED <<ncalls, store_vars>>

\* The thread takes a guard and drops it at the end of the statement.
LockTouch(t) ==
    /\ todo[t] # <<>>
    /\ Head(todo[t])[1] = "touch"
    /\ CanAcquire(t, Head(todo[t])[2], Head(todo[t])[3])
    /\ todo' = [todo EXCEPT ![t] = Tail(@)]
    /\ UNCHANGED <<guards, ncalls, store_vars>>

\* The thread drops a guard it holds.
LockRelease(t) ==
    /\ todo[t] # <<>>
    /\ Head(todo[t])[1] = "rel"
    /\ guards' = [guards EXCEPT ![t] = DropGuard(@, <<Head(todo[t])[2], Head(todo[t])[3]>>)]
    /\ todo' = [todo EXCEPT ![t] = Tail(@)]
    /\ UNCHANGED <<ncalls, store_vars>>

\* A step of a call in progress.
LockStep(t) == LockBranch(t) \/ LockAcquire(t) \/ LockTouch(t) \/ LockRelease(t)

NextLock ==
    \E t \in Threads :
        \/ BeginPost(t)
        \/ BeginGet(t)
        \/ BeginQuery(t)
        \/ BeginSnapshot(t)
        \/ BeginAdvanceEpoch(t)
        \/ BeginTombstone(t)
        \/ BeginCompact(t)
        \/ BeginClear(t)
        \/ LockBranch(t)
        \/ LockAcquire(t)
        \/ LockTouch(t)
        \/ LockRelease(t)

SpecLock == InitConc /\ [][NextLock]_vars

\* The scheduler runs every thread that stays able to take its next step.
SpecLockFair == SpecLock /\ \A t \in Threads : WF_vars(LockStep(t))

(* ------------------------------ claims -------------------------------- *)

\* Every entry a caller may hand to post in the runs.
PostInputs == PostEntries(0) \cup {Forged, [E1(0) EXCEPT !.tombstoned = TRUE]}

\* C1: post is idempotent: from every reachable store and for every entry e,
\* post(e); post(e) leaves live, pending, the three indexes and
\* canonical_order as post(e) alone leaves them, both calls return e's hash,
\* and len() grows by at most 1 over the two calls.
C1_PostIdempotent ==
    \A e \in PostInputs :
        LET r1 == post(bb, e)
            r2 == post(r1.bb, e)
        IN  /\ r2.bb.live = r1.bb.live
            /\ r2.bb.pending = r1.bb.pending
            /\ r2.bb.by_type = r1.bb.by_type
            /\ r2.bb.by_author = r1.bb.by_author
            /\ r2.bb.by_parent = r1.bb.by_parent
            /\ r2.bb.canonical_order = r1.bb.canonical_order
            /\ r1.ret = e.content_hash
            /\ r2.ret = e.content_hash
            /\ len(r2.bb) <= len(bb) + 1

\* A post that found its entry already held: it returned with the snapshot
\* memoized before it still in place.
C1_Witness ==
    /\ last.op = "post"
    /\ bb.cached_snapshot # None
    /\ bb.pending # <<>>

\* C2: after post(e) returns, every hash of e.supersedes that the store
\* holds (pending or live) is reported tombstoned by get.
C2_Supersession ==
    [][\A e \in PostEntries(0) :
          (last'.op = "post" /\ bb' = post(bb, e).bb)
          => \A h \in Range(e.supersedes) :
                get(bb, h) # None => get(bb', h)[1].tombstoned]_vars

\* C3: no snapshot returned by snapshot() holds an entry whose hash the
\* store reports tombstoned at the time of the call.
C3_NoTombstonedInSnapshot ==
    (last.op = "snapshot") =>
        \A i \in 1..Len(snaps[Len(snaps)].entries) :
            LET e == snaps[Len(snaps)].entries[i]
                g == get(bb, e.content_hash)
            IN  /\ ~e.tombstoned
                /\ g # None => ~g[1].tombstoned

\* snapshot() returned a non-empty snapshot while live holds a promoted
\* tombstoned entry.
C3_Witness ==
    /\ last.op = "snapshot"
    /\ snaps[Len(snaps)].entries # <<>>
    /\ \E h \in Range(bb.canonical_order) \cap DOMAIN bb.live :
          bb.live[h].tombstoned

\* The claim's reading of "expired by age" at clock reading t: older than
\* the explicit ttl, or, for an Stm entry without one, than the Stm TTL.
Aged(e, stm_ttl, t) ==
    \/ e.ttl # None /\ t - e.created_at > e.ttl[1]
    \/ e.ttl = None /\ e.tier = "Stm" /\ t - e.created_at > stm_ttl

\* C4: a snapshot built by the store holds no entry that is tombstoned or
\* expired by age at the moment it is built.
C4_NoExpiredInSnapshot ==
    [][(last'.op = "snapshot" /\ bb.cached_snapshot = None)
       => \A i \in 1..Len(bb'.cached_snapshot[1].entries) :
             LET e == bb'.cached_snapshot[1].entries[i]
             IN  ~e.tombstoned /\ ~Aged(e, bb.config.stm_ttl_seconds, now')]_vars

\* A non-empty memoized snapshot that left out a promoted, untombstoned
\* entry: the entry was expired by age when the snapshot was built.
C4_Witness ==
    /\ last.op = "snapshot"
    /\ bb.cached_snapshot # None
    /\ bb.cached_snapshot[1].entries # <<>>
    /\ \E h \in Range(bb.canonical_order) \cap DOMAIN bb.live :
          /\ ~bb.live[h].tombstoned
          /\ Aged(bb.live[h], bb.config.stm_ttl_seconds, now)
          /\ \A i \in 1..Len(bb.cached_snapshot[1].entries) :
                bb.cached_snapshot[1].entries[i].content_hash # h

\* C5: two snapshot() calls with no mutating call between them return the
\* same epoch, entry sequence, thumbprint and rendered text, however much
\* time passes between them.
C5_SnapshotPurity ==
    Len(snaps) = 2 =>
        /\ snaps[1].epoch = snaps[2].epoch
        /\ snaps[1].entries = snaps[2].entries
        /\ snaps[1].thumbprint = snaps[2].thumbprint
        /\ snaps[1].rendered = snaps[2].rendered

\* Two snapshots were returned with no mutation between them, and by now a
\* fresh build would differ from what the second call returned.
C5_Witness ==
    /\ Len(snaps) = 2
    /\ snaps[2] # build_snapshot(bb, now)

\* C8: after compact() returns, live holds at most max_entries entries.
C8_CompactionBound ==
    (last.op = "compact") =>
        Cardinality(DOMAIN bb.live) <= bb.config.max_entries

\* compact() found more than max_entries entries, none tombstoned or
\* expired, and evicted down to max_entries.
C8_Witness ==
    /\ last.op = "compact"
    /\ now = 0
    /\ last.ret[3] = 0
    /\ last.ret[1] > bb.config.max_entries
    /\ last.ret[2] = bb.config.max_entries

\* C9: import_entries given an entry whose hash field differs from
\* H(author, content, parent) returns a Serialization error and changes
\* nothing.
C9_ImportValidation ==
    [][\A p \in ImportPayloads :
          (/\ last'.op = "import_entries"
           /\ bb' = import_entries(bb, p).bb
           /\ \E i \in 1..Len(p) : ~WellFormed(p[i]))
          => (last'.err = "Serialization" /\ bb' = bb)]_vars

\* C10: no snapshot holds both an entry and a non-tombstoned entry that
\* supersedes it (so after e1, then e2 superseding e1, are posted and the
\* epoch advanced, the snapshot holds e2 and not e1).
C10_SupersededNotInSnapshot ==
    (last.op = "snapshot") =>
        LET es == snaps[Len(snaps)].entries
        IN  \A i, j \in 1..Len(es) :
                ~(es[i].content_hash \in Range(es[j].supersedes)
                  /\ ~es[j].tombstoned)

\* C6: two independent stores that import the same entry sets and advance
\* the epoch the same number of times return snapshots with the same entry
\* order and the same thumbprint, whatever the order of the payloads.
C6_ThumbprintDeterminism ==
    (last.op = "snapshot") =>
        /\ snaps[1].thumbprint = snaps[2].thumbprint
        /\ [i \in 1..Len(snaps[1].entries) |-> snaps[1].entries[i].content_hash]
           = [i \in 1..Len(snaps[2].entries) |-> snaps[2].entries[i].content_hash]

\* C7: under any interleaving, the values returned by successive epoch()
\* calls, and the epoch fields of successive snapshots, never decrease: each
\* is at least every value that a call of its kind had returned before this
\* call began.
C7_EpochMonotone ==
    \A t \in Threads : loc[t].ret # None => loc[t].ret[1] >= loc[t].floor

\* The counter itself never decreases, whatever the interleaving.
EpochCounterMonotone == [][bb'.epoch >= bb.epoch]_vars

\* No mutating call is in flight: every advance_epoch that began has
\* returned (post, tombstone, compact and clear run without interruption).
NoMutationInFlight ==
    \A t \in Threads : pc[t] \in {"idle", "snap_build", "snap_store"}

\* C11: once every mutating call has returned, a memoized snapshot (what the
\* next snapshot() call would return) carries the current epoch or a later
\* one and holds every promoted entry that is neither tombstoned nor expired.
C11_CacheCoherence ==
    (NoMutationInFlight /\ bb.cached_snapshot # None) =>
        LET snap == bb.cached_snapshot[1]
            held == {snap.entries[i].content_hash : i \in 1..Len(snap.entries)}
        IN  /\ snap.epoch >= bb.epoch
            /\ \A h \in Range(bb.canonical_order) \cap DOMAIN bb.live :
                   (~bb.live[h].tombstoned
                    /\ ~is_expired(bb.live[h], bb.config.stm_ttl_seconds, now))
                   => h \in held

\* C12: an entry whose post returned Ok is never dropped: with no call in
\* flight it is in pending or in live, unless compact or clear removed it.
C12_NoLostPost ==
    (\A t \in Threads : pc[t] = "idle") =>
        \A h \in seen.posted : h \in (DOMAIN bb.live) \cup (DOMAIN bb.pending)

\* C13: two snapshots with equal thumbprints have the same rendered prompt
\* text (here: a snapshot of each of two stores, taken at the same time).
C13_ThumbprintDecidesText ==
    (last.op = "snapshot" /\ snaps[1].thumbprint = snaps[2].thumbprint)
        => snaps[1].rendered = snaps[2].rendered

\* C14: any two snapshots of one store that carry the same epoch value have
\* equal thumbprints and equal rendered text.
C14_OnePrefixPerEpoch ==
    (last.op = "snapshot") =>
        LET snap == snaps[Len(snaps)]
        IN  /\ epoch_snaps[snap.epoch].thumbprint = snap.thumbprint
            /\ epoch_snaps[snap.epoch].rendered = snap.rendered

\* C15: with prune_expired = false and |live| <= max_entries, compact()
\* removes no entry: every hash that get resolved to a tombstoned or expired
\* entry before the call still resolves afterwards.
C15_HashChainPreserved ==
    [][(/\ last'.op = "compact"
        /\ bb' = compact(bb, now).bb
        /\ ~bb.config.prune_expired
        /\ Cardinality(DOMAIN bb.live) <= bb.config.max_entries)
       => \A h \in Hashes :
             (/\ get(bb, h) # None
              /\ is_expired(get(bb, h)[1], bb.config.stm_ttl_seconds, now))
             => get(bb', h) # None]_vars

\* Every hash listed in a bucket of one of the three secondary indexes.
Indexed(s) ==
    UNION ({Range(s.by_type[k]) : k \in DOMAIN s.by_type}
           \cup {Range(s.by_author[k]) : k \in DOMAIN s.by_author}
           \cup {Range(s.by_parent[k]) : k \in DOMAIN s.by_parent})

\* C16: with prune_expired = true, compact() called on any reachable store
\* leaves live without tombstoned and without expired entries, leaves
\* canonical_order without hashes absent from live, and leaves no removed
\* hash listed in a secondary index.
C16_PhysicalPruning ==
    bb.config.prune_expired =>
        LET r == compact(bb, now).bb
        IN  /\ \A h \in DOMAIN r.live :
                  /\ ~r.live[h].tombstoned
                  /\ ~is_expired(r.live[h], r.config.stm_ttl_seconds, now)
            /\ Range(r.canonical_order) \subseteq DOMAIN r.live
            /\ Indexed(r) \cap ((DOMAIN bb.live) \ (DOMAIN r.live)) = {}

\* compact() with prune_expired = true counted a tombstoned entry and
\* removed entries, among them a child listed in by_parent.
C16_Witness ==
    /\ last.op = "compact"
    /\ bb.config.prune_expired
    /\ last.ret[3] > 0
    /\ last.ret[1] > last.ret[2]
    /\ \E k \in DOMAIN bb.by_parent : bb.by_parent[k] = <<>>

\* What steps 2 and 3 of compact leave in live at clock reading t: not
\* tombstoned or expired when pruning, and not tombstoned while superseded
\* by a live entry that is not tombstoned.
AfterPruning(s, t) ==
    {h \in DOMAIN s.live :
        /\ ~(s.config.prune_expired
             /\ is_expired(s.live[h], s.config.stm_ttl_seconds, t))
        /\ ~(/\ s.live[h].tombstoned
             /\ \E o \in DOMAIN s.live :
                   h \in Range(s.live[o].supersedes) /\ ~s.live[o].tombstoned)}

C18_RoundTrip ==
    (last.op = "round_trip") => snaps[1].thumbprint = snaps[2].thumbprint

\* C19: import_entries on the hashed store, from any reachable store and for
\* any payload, returns exactly the payload hashes held in neither live nor
\* pending, each once; puts those entries in pending and leaves live alone,
\* and a second import of the same payload returns nothing and changes
\* nothing; and whatever a reachable store holds in pending (imported
\* entries among it) is in live after the next advance_epoch.
C19_ImportDedup ==
    /\ \A p \in ImportPayloads :
          LET r1    == import_entries(bb, p)
              r2    == import_entries(r1.bb, p)
              novel == {p[i].content_hash : i \in 1..Len(p)}
                          \ ((DOMAIN bb.live) \cup (DOMAIN bb.pending))
          IN  /\ Range(r1.ret) = novel
              /\ Len(r1.ret) = Cardinality(novel)
              /\ DOMAIN r1.bb.pending = (DOMAIN bb.pending) \cup novel
              /\ r1.bb.live = bb.live
              /\ r2.ret = <<>>
              /\ r2.bb = r1.bb
    /\ \A iter \in Perms(DOMAIN bb.pending) :
          DOMAIN bb.pending \subseteq DOMAIN advance_epoch(bb, iter).bb.live

\* An import_entries call that found every payload entry already held: it
\* returned with the memoized snapshot still in place.
C19_Witness ==
    /\ last.op = "import_entries"
    /\ bb.cached_snapshot # None
    /\ DOMAIN bb.pending # {}
    /\ DOMAIN bb.live # {}

\* C20: OriginalBlackboard.import_entries returns only hashes of entries
\* that were not stored before the call (so re-importing a payload that is
\* already present returns no hash).
C20_OriginalImportResult ==
    [][\A p \in ImportPayloads :
          LET r == orig_import_entries(ob, p)
          IN  (/\ last' = Call("import_entries", r.ret, "")
               /\ ob' = r.ob
               /\ now' = now)
              => Range(r.ret) \cap StoredHashes(ob) = {}]_vars


\* The hashes of a sequence of entries.
HashesOf(entries) == [i \in 1..Len(entries) |-> entries[i].content_hash]

\* Expired by age as the specification defines it: older than the explicit
\* ttl, or, for an Stm entry without one, than the Stm TTL, where an Stm
\* TTL of 0 stands for no expiry.
ExpiredByAge(e, stm_ttl, t) ==
    \/ e.ttl # None /\ t - e.created_at > e.ttl[1]
    \/ e.ttl = None /\ e.tier = "Stm" /\ stm_ttl # 0
         /\ t - e.created_at > stm_ttl

\* Queries by a single author or a single kind, with no other predicate.
IndexQueries ==
    {by_author("A"), by_author("B"), by_type("Fact"), by_type("Hypothesis")}

\* The entry has the author (the kind) the index query asks for.
KeyMatches(q, e) ==
    IF q.authors # None THEN e.author = q.authors[1][1]
    ELSE e.entry_type = q.entry_types[1][1]

\* The hashes query(q) returns from store s at clock reading t.
Answer(s, q, t) ==
    HashesOf(query(s, q, t, SetToSeq(DOMAIN s.live),
                   SetToSeq(DOMAIN s.pending)))

\* C21: after every post, epoch advance, tombstone, compaction and second
\* of time, a query by a single author or a single kind returns exactly the
\* entries of live and pending with that author (kind) that are neither
\* tombstoned nor expired, each once, truncated to limit, and in posting
\* order: the entries already returned before the step keep their relative
\* order and an entry returned for the first time comes after them.
C21_QueryByIndex ==
    [][\A q \in IndexQueries :
          LET before == Answer(bb, q, now)
              after  == Answer(bb', q, now')
              held   == (DOMAIN bb'.live) \cup (DOMAIN bb'.pending)
          IN  /\ Range(after) =
                    {h \in held :
                        /\ KeyMatches(q, get(bb', h)[1])
                        /\ ~get(bb', h)[1].tombstoned
                        /\ ~ExpiredByAge(get(bb', h)[1],
                                         bb'.config.stm_ttl_seconds, now')}
              /\ Len(after) = Cardinality(Range(after))
              /\ Answer(bb', with_limit(q, 1), now') = take(after, 1)
              /\ SelectSeq(after, LAMBDA h : h \in Range(before))
                    = SelectSeq(before, LAMBDA h : h \in Range(after))
              /\ \A i, j \in 1..Len(after) :
                    (i < j /\ after[i] \notin Range(before))
                       => after[j] \notin Range(before)]_vars

\* C22: every entry a query call returned satisfies every predicate set in
\* the query: kind, author, parent, minimum confidence, text, and neither
\* tombstoned nor expired unless include_tombstoned; and at most limit
\* entries were returned.
C22_QueryConjunctive ==
    last.op = "query" =>
        LET q  == last.ret[1]
            rs == last.ret[3]
        IN  /\ Len(rs) <= q.limit
            /\ \A i \in 1..Len(rs) :
                  LET e == rs[i]
                  IN  /\ q.entry_types # None
                            => e.entry_type \in Range(q.entry_types[1])
                      /\ q.authors # None => e.author \in Range(q.authors[1])
                      /\ q.parent_hash # None => e.parent_hash = q.parent_hash
                      /\ e.confidence >= q.min_confidence
                      /\ q.text # None =>
                            contains(to_lowercase(e.content),
                                     to_lowercase(q.text[1]))
                      /\ ~q.include_tombstoned =>
                            /\ ~e.tombstoned
                            /\ ~ExpiredByAge(e, bb.config.stm_ttl_seconds,
                                             last.ret[2])


\* The group order the specification fixes for the rendered text.
GroupOrder == <<"Decisions", "Facts", "Hypotheses", "Observations",
                "In Progress", "Open Questions", "Vetoed",
                "Reasoning Traces">>

\* The kind whose group carries the label.
KindOfLabel(label) == type_order[TypeOfLabel(label)][1]

\* C23: in the rendered text of the memoized snapshot the group headings
\* are the labels of the kinds present, in the fixed order Decisions,
\* Facts, Hypotheses, Observations, In Progress, Open Questions, Vetoed,
\* Reasoning Traces, and the lines of each kind appear in canonical order.
C23_GroupOrder ==
    bb.cached_snapshot # None =>
        LET snap     == bb.cached_snapshot[1]
            headings == SelectSeq(snap.rendered, LAMBDA l : l.tag = "section")
            items    == SelectSeq(snap.rendered, LAMBDA l : l.tag = "item")
            present  == {snap.entries[i].entry_type :
                            i \in 1..Len(snap.entries)}
        IN  /\ [i \in 1..Len(headings) |-> headings[i].text]
                  = SelectSeq(GroupOrder,
                              LAMBDA label : KindOfLabel(label) \in present)
            /\ \A k \in present :
                  LET of_kind == SelectSeq(snap.entries,
                                           LAMBDA e : e.entry_type = k)
                  IN  SelectSeq([i \in 1..Len(items) |-> items[i].n],
                                LAMBDA h : h \in Range(HashesOf(of_kind)))
                         = HashesOf(of_kind)


\* Of the batch, the set S holds all or nothing.
AllOrNone(S) == BatchHashes \cap S = {} \/ BatchHashes \subseteq S

\* C24: the entries of the one post_batch call are promoted together: at
\* no moment does live hold some of them without the others, and no
\* snapshot, built or memoized, lists some of them without the others.
C24_BatchAtomic ==
    /\ AllOrNone(DOMAIN bb.live)
    /\ bb.cached_snapshot # None =>
          AllOrNone(Range(HashesOf(bb.cached_snapshot[1].entries)))
    /\ \A t \in Threads :
          loc[t].snap # None =>
              AllOrNone(Range(HashesOf(loc[t].snap[1].entries)))


\* The hash is listed in every index bucket the entry belongs to.
FullyIndexed(s, e) ==
    /\ e.entry_type \in DOMAIN s.by_type
    /\ e.content_hash \in Range(s.by_type[e.entry_type])
    /\ e.author \in DOMAIN s.by_author
    /\ e.content_hash \in Range(s.by_author[e.author])
    /\ e.parent_hash # None =>
          /\ e.parent_hash[1] \in DOMAIN s.by_parent
          /\ e.content_hash \in Range(s.by_parent[e.parent_hash[1]])

\* C25: once every post and clear call has returned, each entry is either
\* in pending together with all of its index entries, or absent from
\* pending and from every index.
C25_ClearAtomic ==
    (\A t \in Threads : pc[t] = "idle") =>
        \A e \in ClearEntries :
            \/ /\ e.content_hash \in DOMAIN bb.pending
               /\ FullyIndexed(bb, e)
            \/ /\ e.content_hash \notin DOMAIN bb.pending
               /\ e.content_hash \notin Indexed(bb)


\* C26: in a store with stm_ttl_seconds = 0, a promoted Stm entry without
\* an explicit ttl that is not tombstoned is, whatever its age, listed in
\* the snapshot built now, returned by the query for its author, kept by
\* compact() unless the capacity bound evicts it, and not counted as
\* pruned when it is the only live entry.
C26_ZeroTtlNoExpiry ==
    bb.config.stm_ttl_seconds = 0 =>
        \A h \in DOMAIN bb.live :
            LET e == bb.live[h]
                r == compact(bb, now)
            IN  (e.tier = "Stm" /\ e.ttl = None /\ ~e.tombstoned) =>
                   /\ h \in Range(bb.canonical_order) =>
                         h \in Range(HashesOf(build_snapshot(bb, now).entries))
                   /\ h \in Range(Answer(bb, by_author(e.author), now))
                   /\ Cardinality(DOMAIN bb.live) <= bb.config.max_entries =>
                         h \in DOMAIN r.bb.live
                   /\ DOMAIN bb.live = {h} => r.stats.pruned = 0


\* C27: from every reachable store, tombstone(h) of a hash held in neither
\* live nor pending returns NotFound and leaves the whole store as it was;
\* tombstone(h) of a held hash returns Ok and get(h) then reports the entry
\* tombstoned.
C27_TombstonePresence ==
    \A h \in Hashes :
        LET r == tombstone(bb, h)
        IN  IF h \notin (DOMAIN bb.live) \cup (DOMAIN bb.pending)
            THEN r.err = "NotFound" /\ r.bb = bb
            ELSE /\ r.err = ""
                 /\ get(r.bb, h) # None
                 /\ get(r.bb, h)[1].tombstoned

\* tombstone of an absent hash returned NotFound on a store that holds a
\* memoized snapshot, a live entry and a pending entry tombstoned by an
\* earlier call.
C27_Witness ==
    /\ last.op = "tombstone"
    /\ last.err = "NotFound"
    /\ bb.cached_snapshot # None
    /\ bb.live # <<>>
    /\ \E h \in DOMAIN bb.pending : bb.pending[h].tombstoned


C29_EfficiencySaturation ==
    /\ eff.stats.cache_hits + eff.stats.cache_misses = eff.calls
    /\ \A total \in Tokens, cached \in Tokens :
          LET c == eff.stats
              r == record_call(c, total, cached, eff.build)
          IN  /\ r.err = ""
              /\ r.eff.total_prompt_tokens = c.total_prompt_tokens + total
              /\ r.eff.cached_tokens = c.cached_tokens + cached
              /\ r.eff.fresh_tokens =
                    c.fresh_tokens + (IF cached > total THEN 0
                                      ELSE total - cached)
              /\ r.eff.cache_hits =
                    c.cache_hits + (IF cached > 0 THEN 1 ELSE 0)
              /\ r.eff.cache_misses =
                    c.cache_misses + (IF cached > 0 THEN 0 ELSE 1)


\* The cache-boundary markers in a block array; a string holds none.
BlockMarkers(content) ==
    IF content.json = "array"
    THEN Cardinality({i \in 1..Len(content.v) :
                         "cache_control" \in DOMAIN content.v[i].v})
    ELSE 0

\* The cache-boundary markers in the contents of a sequence of messages.
RECURSIVE Markers(_)
Markers(messages) ==
    IF messages = <<>> THEN 0
    ELSE BlockMarkers(Head(messages).v.content) + Markers(Tail(messages))

\* The layout of the messages a call returned, the markers apart: 2 +
\* |history| messages, a system message, the task context as user
\* message, then the history; the system content is the role block
\* followed, for a non-empty snapshot text, by the marked snapshot block.
Layout(arg, out) ==
    /\ Len(out) = 2 + Len(arg.history)
    /\ out[1].v.role = JString("system")
    /\ out[2] = JObject([role |-> JString("user"),
                         content |-> JString(arg.task_context)])
    /\ SubSeq(out, 3, Len(out)) = arg.history
    /\ out[1].v.content.json = "array"
    /\ LET blocks == out[1].v.content.v
       IN  /\ Len(blocks) = IF arg.blackboard_snapshot = "" THEN 1 ELSE 2
           /\ blocks[1] = text_block(arg.system_prompt)
           /\ arg.blackboard_snapshot # "" =>
                 /\ blocks[2].v.text = JString(arg.blackboard_snapshot)
                 /\ "cache_control" \in DOMAIN blocks[2].v

NoDuplicates(seq) == Cardinality(Range(seq)) = Len(seq)

\* C31: whatever the interleaving of post, import_entries and advance_epoch
\* calls, canonical_order lists no hash twice, no entry is in pending and in
\* live once every call has returned, and no snapshot, built or memoized,
\* lists an entry twice.
C31_CanonicalOrderNoDuplicates ==
    /\ NoDuplicates(bb.canonical_order)
    /\ (\A t \in Threads : pc[t] = "idle") =>
          (DOMAIN bb.live) \cap (DOMAIN bb.pending) = {}
    /\ bb.cached_snapshot # None =>
          NoDuplicates(HashesOf(bb.cached_snapshot[1].entries))
    /\ \A t \in Threads :
          loc[t].snap # None => NoDuplicates(HashesOf(loc[t].snap[1].entries))


\* C32: two stores that received the same sequence of post and
\* advance_epoch calls hold the same canonical order: the order in which one
\* advance_epoch promotes depends on the posts made and on nothing else.
C32_PromotionOrder == bb.canonical_order = bbB.canonical_order


\* The live entry h is superseded by a live entry that is not tombstoned,
\* directly or through at most k further live entries that are.
RECURSIVE SupersededThrough(_, _, _)
SupersededThrough(s, h, k) ==
    \E o \in DOMAIN s.live :
        /\ h \in Range(s.live[o].supersedes)
        /\ \/ ~s.live[o].tombstoned
           \/ k > 0 /\ SupersededThrough(s, o, k - 1)

\* C33: compact() called on any reachable store leaves in live no entry
\* that was tombstoned and superseded, directly or through a chain of
\* supersedes links, by a live entry that is not tombstoned, and
\* superseded_removed is the number of such entries that the pruning step
\* before had left in live.
C33_TransitiveSupersession ==
    LET r    == compact(bb, now)
        gone == {h \in DOMAIN bb.live :
                    /\ bb.live[h].tombstoned
                    /\ SupersededThrough(bb, h, Cardinality(DOMAIN bb.live))}
    IN  /\ gone \cap DOMAIN r.bb.live = {}
        /\ r.stats.superseded_removed =
              IF bb.config.prune_expired THEN 0 ELSE Cardinality(gone)


\* C34: a snapshot returned by snapshot(), built or memoized, holds no entry
\* that is expired by age at the time of the call.
C34_ExpiryAtReadTime ==
    [][(last'.op = "snapshot" /\ now' = now)
       => LET snap == snaps'[Len(snaps')]
          IN  \A i \in 1..Len(snap.entries) :
                 ~ExpiredByAge(snap.entries[i], bb.config.stm_ttl_seconds,
                               now)]_vars


\* The staged entry h is absent from the snapshot.
Unlisted(s, h, snap) ==
    /\ h \in DOMAIN s.pending
    /\ h \notin Range(HashesOf(snap.entries))

\* get returns the staged entry h, and so does the query for its author
\* if the entry is neither tombstoned nor expired by age at t.
Visible(s, h, t) ==
    LET e == s.pending[h]
        results == query(s, by_author(e.author), t, <<>>, <<>>)
    IN  /\ get(s, h) = Some(e)
        /\ (~e.tombstoned /\ ~ExpiredByAge(e, s.config.stm_ttl_seconds, t))
              => e \in Range(results)

\* Posting e leaves the entries and the thumbprint of what snapshot()
\* returns at t as they are.
PostLeavesSnapshot(s, e, t) ==
    LET snap  == snapshot(s, t).ret
        after == snapshot(post(s, e).bb, t).ret
    IN  /\ after.entries = snap.entries
        /\ after.thumbprint = snap.thumbprint

\* C35: in every reachable store, an entry held in pending is absent from
\* the snapshot that snapshot() returns, while get and query return it; and
\* posting an entry with empty supersedes leaves the entries and the
\* thumbprint of that snapshot unchanged.
C35_TwoStageCommit ==
    /\ \A h \in DOMAIN bb.pending :
          /\ Unlisted(bb, h, snapshot(bb, now).ret)
          /\ Visible(bb, h, now)
    /\ \A e \in PostInputs :
          e.supersedes = <<>> => PostLeavesSnapshot(bb, e, now)


\* C36: in a sequential run with the clock held, the memoized snapshot,
\* which is what snapshot() returns while the slot is filled, equals the
\* snapshot built afresh from canonical_order and live: same epoch,
\* entries, thumbprint and rendered text.
C36_MemoNeverStale ==
    bb.cached_snapshot # None =>
        LET memo  == snapshot(bb, now).ret
            fresh == build_snapshot(bb, now)
        IN  /\ memo.epoch = fresh.epoch
            /\ memo.entries = fresh.entries
            /\ memo.thumbprint = fresh.thumbprint
            /\ memo.rendered = fresh.rendered

\* A memoized snapshot that lists an entry survived a call that changed
\* the store but not what a fresh build returns: tombstone flagged an entry
\* that is still staged.
C36_Witness ==
    /\ bb.cached_snapshot # None
    /\ bb.cached_snapshot[1].entries # <<>>
    /\ last.op = "tombstone"
    /\ last.err = ""
    /\ \E h \in DOMAIN bb.pending : bb.pending[h].tombstoned


\* C37: the epoch is 0 on a new store; the step on which an advance_epoch
\* call returns, with pending empty or not, raises the counter by exactly
\* one and returns the raised value, so that concurrent calls return
\* distinct consecutive values; and no step of any other call changes it.
C37_EpochCountsAdvances ==
    /\ epoch(bb) = 0
    /\ [][/\ \A t \in Threads :
               (pc[t] = "adv_bump" /\ pc'[t] = "idle")
                   => epoch(bb') = epoch(bb) + 1
          /\ epoch(bb') # epoch(bb) =>
               \E t \in Threads : pc[t] = "adv_bump" /\ pc'[t] = "idle"]_vars

\* One advance_epoch call has returned and a second is about to, with
\* nothing to promote, while the other thread is inside snapshot().
C37_Witness ==
    /\ epoch(bb) = 1
    /\ bb.canonical_order = <<>>
    /\ bb.pending = <<>>
    /\ \E t, u \in Threads : pc[t] = "adv_bump" /\ pc[u] = "snap_store"


\* The sequence a is b with some elements left out.
RECURSIVE IsSubsequence(_, _)
IsSubsequence(a, b) ==
    IF a = <<>> THEN TRUE
    ELSE IF b = <<>> THEN FALSE
    ELSE IF Head(a) = Head(b) THEN IsSubsequence(Tail(a), Tail(b))
    ELSE IsSubsequence(a, Tail(b))

\* C38: after every call of a sequential run, canonical_order lists no hash
\* twice and lists exactly the keys of live, live and pending share no key,
\* and compact() called now leaves canonical_order a subsequence of what it
\* is.
C38_CanonicalMirrorsLive ==
    /\ NoDuplicates(bb.canonical_order)
    /\ Range(bb.canonical_order) = DOMAIN bb.live
    /\ (DOMAIN bb.live) \cap (DOMAIN bb.pending) = {}
    /\ IsSubsequence(compact(bb, now).bb.canonical_order, bb.canonical_order)

\* compact() has just removed two entries of a canonical order of three.
C38_Witness ==
    /\ last.op = "compact"
    /\ last.ret[1] = 3
    /\ last.ret[2] = 1
    /\ Len(bb.canonical_order) = 1

\* How often the bucket of key k lists the hash h.
Listed(index, k, h) ==
    IF k \in DOMAIN index
    THEN Cardinality({i \in 1..Len(index[k]) : index[k][i] = h})
    ELSE 0

\* C39: after every call of a sequential run, each entry held in live or
\* pending is listed exactly once in the by_type bucket of its kind, exactly
\* once in the by_author bucket of its author and, if it has a parent,
\* exactly once in the by_parent bucket of that parent; and no bucket lists
\* a hash that neither map holds.
C39_IndexesConsistent ==
    /\ \A h \in (DOMAIN bb.live) \cup (DOMAIN bb.pending) :
          LET e == get(bb, h)[1]
          IN  /\ Listed(bb.by_type, e.entry_type, h) = 1
              /\ Listed(bb.by_author, e.author, h) = 1
              /\ e.parent_hash # None =>
                    Listed(bb.by_parent, e.parent_hash[1], h) = 1
    /\ Indexed(bb) \subseteq (DOMAIN bb.live) \cup (DOMAIN bb.pending)

\* compact() has removed a child whose parent is still live, a payload has
\* been imported since, and the parent's by_parent bucket is empty again.
C39_Witness ==
    /\ last.op = "import_entries"
    /\ bb.pending # <<>>
    /\ \E k \in DOMAIN bb.by_parent : bb.by_parent[k] = <<>> /\ k \in DOMAIN bb.live


\* C40: under fair scheduling every call that has begun returns, whatever
\* calls of post, get, query, snapshot, advance_epoch, tombstone, compact
\* and clear run beside it and however their lock steps interleave.
C40_EveryCallReturns ==
    \A t \in Threads : (todo[t] # <<>>) ~> (todo[t] = <<>>)

\* compact(), holding a read guard on a live shard, stands at a second read
\* of that shard, and advance_epoch(), holding canonical_order's write
\* guard and a pending shard, stands at `live.insert` on that very shard.
C40_Witness ==
    \E t, u \in Threads, s \in Shards :
        /\ guards[t] = <<(<<shard("live", s), "r">>)>>
        /\ todo[t] # <<>>
        /\ Head(todo[t]) = Touch(shard("live", s), "r")
        /\ Len(guards[u]) = 2
        /\ guards[u][1] = <<canonical_order_lock, "w">>
        /\ guards[u][2][1][1] = "pending"
        /\ todo[u] # <<>>
        /\ Head(todo[u]) = Touch(shard("live", s), "w")

====
